---- MODULE Spec2Model ----
(***************************************************************************)
(* A model of the k8s_gateway DNS resolution engine: the query dispatcher  *)
(* (ServeDNS), the index lookup pipeline with wildcard fallback, the CNAME *)
(* chain resolver, the apex handling, the SOA serial cell and the zone     *)
(* transfer producer.                                                      *)
(*                                                                         *)
(* DNS names, index keys and host strings are Go strings; they are         *)
(* modelled as sequences of one-character strings so that the byte-level   *)
(* operations of the code (slicing by length, HasSuffix, Split, ToLower,   *)
(* sort.Strings) are computed the way the code computes them.              *)
(***************************************************************************)
EXTENDS Integers, Sequences, FiniteSets, TLC

VARIABLES
    gw,          \* the Gateway: Zones, Resources, ConfiguredResources, apex, secondNS, hostmaster, Fall, ttlLow, ttlSOA, CNAMEMaxDepth
    hasSynced,   \* gw.Controller.HasSynced()
    tables,      \* per resource name, the data behind its lookup function
    stores,      \* the objects of the informers' stores (zone transfer walks them)
    lastSerial,  \* gw.lastSerial (uint32)
    dirty,       \* gw.dirty
    hist,        \* history of the soa() calls made so far
    resp,        \* what the last ServeDNS call returned and wrote
    xfr          \* the zone transfer in flight: its channel and its producer

vars == <<gw, hasSynced, tables, stores, lastSerial, dirty, hist, resp, xfr>>

-----------------------------------------------------------------------------
(* Go strings as sequences of characters *)

\* The characters the model uses, in ascending byte order (ASCII).
AsciiOrder == <<"*", ".", "A", "W", "Z", "a", "b", "d", "k", "w", "y", "z">>

Ord(c) == CHOOSE i \in 1..Len(AsciiOrder) : AsciiOrder[i] = c

\* unicode.ToLower on one character
ToLowerChar(c) ==
    CASE c = "A" -> "a"
      [] c = "W" -> "w"
      [] c = "Z" -> "z"
      [] OTHER -> c

\* strings.ToLower
ToLower(s) == [i \in 1..Len(s) |-> ToLowerChar(s[i])]

\* strings.HasSuffix
HasSuffix(s, suffix) ==
    /\ Len(suffix) <= Len(s)
    /\ SubSeq(s, Len(s) - Len(suffix) + 1, Len(s)) = suffix

\* strings.HasPrefix
HasPrefix(s, prefix) ==
    /\ Len(prefix) <= Len(s)
    /\ SubSeq(s, 1, Len(prefix)) = prefix

\* strings.TrimSuffix
TrimSuffix(s, suffix) ==
    IF HasSuffix(s, suffix) THEN SubSeq(s, 1, Len(s) - Len(suffix)) ELSE s

\* Go's s < t on strings (bytewise lexicographic order), used by sort.Strings
RECURSIVE StrLess(_, _)
StrLess(s, t) ==
    IF t = <<>> THEN FALSE
    ELSE IF s = <<>> THEN TRUE
    ELSE IF Ord(Head(s)) < Ord(Head(t)) THEN TRUE
    ELSE IF Ord(Head(s)) > Ord(Head(t)) THEN FALSE
    ELSE StrLess(Tail(s), Tail(t))

\* strings.Split(s, "."): never empty; Split("", ".") is one empty part
RECURSIVE SplitDot(_)
SplitDot(s) ==
    IF \A i \in 1..Len(s) : s[i] # "." THEN <<s>>
    ELSE LET i == CHOOSE j \in 1..Len(s) :
                      s[j] = "." /\ \A k \in 1..(j - 1) : s[k] # "."
         IN  <<SubSeq(s, 1, i - 1)>> \o SplitDot(SubSeq(s, i + 1, Len(s)))

\* strings.Join(parts, ".")
RECURSIVE JoinDot(_)
JoinDot(parts) ==
    IF parts = <<>> THEN <<>>
    ELSE IF Len(parts) = 1 THEN parts[1]
    ELSE parts[1] \o <<".">> \o JoinDot(Tail(parts))

\* dns.Fqdn: the name with a closing dot
Fqdn(s) == IF HasSuffix(s, <<".">>) THEN s ELSE s \o <<".">>

\* dns.SplitDomainName: the labels of a name; the root has none
Labels(s) ==
    LET t == TrimSuffix(s, <<".">>)
    IN  IF t = <<>> THEN <<>> ELSE SplitDot(t)

\* dns.CountLabel
CountLabel(s) == Len(Labels(s))

\* dns.IsSubDomain(parent, child): label-wise, case-insensitive
IsSubDomain(parent, child) ==
    LET p == Labels(ToLower(parent))
        c == Labels(ToLower(child))
    IN  /\ Len(p) <= Len(c)
        /\ SubSeq(c, Len(c) - Len(p) + 1, Len(c)) = p

\* dnsutil.Join: the labels joined by dots, fully qualified
DnsJoin(parts) == Fqdn(JoinDot(parts))

-----------------------------------------------------------------------------
(* The SOA serial cell *)

\* TLC's integers are 32-bit signed, so a uint32 is kept as two 16-bit limbs
\* <<high, low>> and an int64 clock reading as <<bits 32 and up, high, low>>.
Limb == 2 ^ 16

U32(high, low) == <<high, low>>

\* a < b and a <= b on uint32
U32Less(a, b) == a[1] < b[1] \/ (a[1] = b[1] /\ a[2] < b[2])
U32Leq(a, b) == a = b \/ U32Less(a, b)

\* a + 1 in uint32 arithmetic: 2^32 - 1 wraps to 0
U32Inc(a) ==
    IF a[2] + 1 < Limb THEN <<a[1], a[2] + 1>>
    ELSE IF a[1] + 1 < Limb THEN <<a[1] + 1, 0>>
    ELSE <<0, 0>>

U32Max == <<Limb - 1, Limb - 1>>
U32Zero == <<0, 0>>

\* uint32(x): conversion of an int64 to uint32 keeps the low 32 bits
Uint32(x) == <<x[2], x[3]>>

\* calculateSerial under gw.serialMutex, with time.Now().Unix() = now:
\* the serial returned and the cell it leaves behind.
calculateSerial(now, last, isDirty) ==
    IF isDirty
    THEN LET fromClock == Uint32(now)
             newSerial == IF U32Leq(fromClock, last) THEN U32Inc(last) ELSE fromClock
         IN  [serial |-> newSerial, lastSerial |-> newSerial, dirty |-> FALSE]
    ELSE [serial |-> last, lastSerial |-> last, dirty |-> isDirty]

-----------------------------------------------------------------------------
(* Index keys *)

\* stripClosingDot: strips the closing dot unless the string is "."
stripClosingDot(s) == IF Len(s) > 1 THEN TrimSuffix(s, <<".">>) ELSE s

\* stripDomain slices qname[:len(qname)-len(zone)]: a negative bound is a
\* run-time panic of the Go program.
stripDomainPanics(qname, zone) == Len(qname) < Len(zone)

stripDomain(qname, zone) ==
    stripClosingDot(SubSeq(qname, 1, Len(qname) - Len(zone)))

\* getQueryIndexKeys: the full name without closing dot, then the zone-less name
getQueryIndexKeys(qName, zone) ==
    LET zonelessQuery == stripDomain(qName, zone)
        strippedQName == stripClosingDot(qName)
    IN  IF Len(zonelessQuery) # 0 /\ zonelessQuery # strippedQName
        THEN <<strippedQName, zonelessQuery>>
        ELSE <<strippedQName>>

\* toWildcardQName: the first label of the zone-less name replaced by "*".
\* strings.Split never returns an empty slice, so the len(parts) == 0 branch
\* of the code is never taken.
toWildcardQName(qName, zone) ==
    LET zonelessQuery == stripDomain(qName, zone)
        parts == SplitDot(zonelessQuery)
    IN  IF Len(parts) = 0 THEN <<>>
        ELSE JoinDot(<<<<"*">>>> \o Tail(parts) \o <<zone>>)

\* A variant of getQueryIndexKeySets that probes the wildcard keys first
getQueryIndexKeySetsWildcardFirst(qName, zone) ==
    LET specificIndexKeys == getQueryIndexKeys(qName, zone)
        wildcardQName == toWildcardQName(qName, zone)
    IN  IF wildcardQName = <<>> THEN <<specificIndexKeys>>
        ELSE <<getQueryIndexKeys(wildcardQName, zone), specificIndexKeys>>

\* getQueryIndexKeySets: the specific keys, then the wildcard keys
getQueryIndexKeySets(qName, zone) ==
    LET specificIndexKeys == getQueryIndexKeys(qName, zone)
        wildcardQName == toWildcardQName(qName, zone)
    IN  IF wildcardQName = <<>> THEN <<specificIndexKeys>>
        ELSE <<specificIndexKeys, getQueryIndexKeys(wildcardQName, zone)>>

-----------------------------------------------------------------------------
(* Resource tables and the lookup pipeline *)

\* The result of a lookup function
NoData == [addrs |-> <<>>, raws |-> <<>>, cnames |-> <<>>]

HasData(t) == Len(t.addrs) > 0 \/ Len(t.raws) > 0 \/ Len(t.cnames) > 0

\* netip.Addr: <<family, host>>
Is4(addr) == addr[1] = 4
Is6(addr) == addr[1] = 6

\* staticResources: the resource kinds in their static order
staticResources == <<"HTTPRoute", "TLSRoute", "GRPCRoute", "Ingress", "Service", "DNSEndpoint">>

\* DefaultResources of the configuration parser
DefaultResources == <<"Ingress", "Service">>

\* The entry of one key in one table (a Go map read: absent keys give nothing)
TableEntry(name, key) ==
    IF key \in DOMAIN tables[name] THEN tables[name][key] ELSE NoData

\* A resource's lookup function: for each key in order, the data indexed under
\* the lowercased key, appended.
RECURSIVE lookup(_, _)
lookup(name, indexKeys) ==
    IF indexKeys = <<>> THEN NoData
    ELSE LET first == TableEntry(name, ToLower(Head(indexKeys)))
             rest == lookup(name, Tail(indexKeys))
         IN  [addrs |-> first.addrs \o rest.addrs,
              raws |-> first.raws \o rest.raws,
              cnames |-> first.cnames \o rest.cnames]

\* A variant of updateResources that keeps the static order of the resources
\* the configuration names, whatever order it names them in.
updateResourcesStaticOrder(newResources) ==
    LET named == {i \in 1..Len(staticResources) :
                     \E j \in 1..Len(newResources) : newResources[j] = staticResources[i]}
        F[i \in 0..Len(staticResources)] ==
            IF i = 0 THEN <<>>
            ELSE F[i - 1] \o (IF i \in named THEN <<staticResources[i]>> ELSE <<>>)
    IN  F[Len(staticResources)]

\* updateResources: gw.Resources becomes the static resources named by the
\* configuration, in the order the configuration names them.
RECURSIVE updateResources(_)
updateResources(newResources) ==
    IF newResources = <<>> THEN <<>>
    ELSE (IF \E i \in 1..Len(staticResources) : staticResources[i] = Head(newResources)
          THEN <<Head(newResources)>> ELSE <<>>)
         \o updateResources(Tail(newResources))

\* The inner loop of getMatchingAddressesWithCNAME over gw.Resources[i..]
RECURSIVE FirstTableWithData(_, _)
FirstTableWithData(indexKeys, i) ==
    IF i > Len(gw.Resources) THEN NoData
    ELSE LET r == lookup(gw.Resources[i], indexKeys)
         IN  IF HasData(r) THEN r ELSE FirstTableWithData(indexKeys, i + 1)

\* A variant of the pipeline with the loops exchanged: tables outside, key
\* sets inside.
RECURSIVE FirstKeySetWithData(_, _)
FirstKeySetWithData(indexKeySets, name) ==
    IF indexKeySets = <<>> THEN NoData
    ELSE LET r == lookup(name, Head(indexKeySets))
         IN  IF HasData(r) THEN r ELSE FirstKeySetWithData(Tail(indexKeySets), name)

RECURSIVE TableMajorFrom(_, _)
TableMajorFrom(indexKeySets, i) ==
    IF i > Len(gw.Resources) THEN NoData
    ELSE LET r == FirstKeySetWithData(indexKeySets, gw.Resources[i])
         IN  IF HasData(r) THEN r ELSE TableMajorFrom(indexKeySets, i + 1)

getMatchingTableMajor(indexKeySets) == TableMajorFrom(indexKeySets, 1)

\* getMatchingAddressesWithCNAME: key sets in list order (outer loop), tables
\* in configured order (inner loop); the first non-empty result.
RECURSIVE getMatchingAddressesWithCNAME(_)
getMatchingAddressesWithCNAME(indexKeySets) ==
    IF indexKeySets = <<>> THEN NoData
    ELSE LET r == FirstTableWithData(Head(indexKeySets), 1)
         IN  IF HasData(r) THEN r
             ELSE getMatchingAddressesWithCNAME(Tail(indexKeySets))

-----------------------------------------------------------------------------
(* Resource records *)

RR(name, type, ttl, data) == [name |-> name, type |-> type, ttl |-> ttl, data |-> data]

\* The dup map of A, AAAA and TXT: first occurrence wins, order kept
RECURSIVE Dedupe(_)
Dedupe(results) ==
    IF results = <<>> THEN <<>>
    ELSE LET init == Dedupe(SubSeq(results, 1, Len(results) - 1))
             last == results[Len(results)]
         IN  IF \E i \in 1..Len(init) : init[i] = last THEN init
             ELSE Append(init, last)

\* The length of the segments of a TXT record
TxtChunk == 255

\* split255, from offset p (0-based) with the next cut at i
RECURSIVE split255From(_, _, _)
split255From(s, p, i) ==
    IF i > Len(s) THEN <<SubSeq(s, p + 1, Len(s))>>
    ELSE <<SubSeq(s, p + 1, i)>> \o split255From(s, p + TxtChunk, i + TxtChunk)

\* A variant of split255 that keeps the first segment only
split255FirstOnly(s) == IF Len(s) < TxtChunk THEN <<s>> ELSE <<SubSeq(s, 1, TxtChunk)>>

split255(s) == IF Len(s) < TxtChunk THEN <<s>> ELSE split255From(s, 0, TxtChunk)

\* gw.A: an A record per distinct address, whatever its family
A(name, results) ==
    LET d == Dedupe(results)
    IN  [i \in 1..Len(d) |-> RR(name, "A", gw.ttlLow, d[i])]

\* gw.AAAA
AAAA(name, results) ==
    LET d == Dedupe(results)
    IN  [i \in 1..Len(d) |-> RR(name, "AAAA", gw.ttlLow, d[i])]

\* gw.TXT
TXT(name, results) ==
    LET d == Dedupe(results)
    IN  [i \in 1..Len(d) |-> RR(name, "TXT", gw.ttlLow, split255(d[i]))]

\* gw.CNAME
CNAME(name, target) == RR(name, "CNAME", gw.ttlLow, Fqdn(target))

\* ipv4Only / ipv6Only, and the split of ServeDNS
RECURSIVE ipv4Only(_)
ipv4Only(addrs) ==
    IF addrs = <<>> THEN <<>>
    ELSE (IF Is4(Head(addrs)) THEN <<Head(addrs)>> ELSE <<>>) \o ipv4Only(Tail(addrs))

RECURSIVE ipv6Only(_)
ipv6Only(addrs) ==
    IF addrs = <<>> THEN <<>>
    ELSE (IF Is6(Head(addrs)) THEN <<Head(addrs)>> ELSE <<>>) \o ipv6Only(Tail(addrs))

\* A variant of soa owned by the query name instead of the zone
soaOwnedByQName(state, serial) ==
    RR(state.QName, "SOA", gw.ttlSOA,
       [Ns |-> DnsJoin(<<gw.apex, state.Zone>>),
        Mbox |-> DnsJoin(<<gw.hostmaster, gw.apex, state.Zone>>),
        Serial |-> serial,
        Minttl |-> gw.ttlSOA])

\* gw.soa(state), whose serial calculateSerial has just returned
soa(state, serial) ==
    RR(state.Zone, "SOA", gw.ttlSOA,
       [Ns |-> DnsJoin(<<gw.apex, state.Zone>>),
        Mbox |-> DnsJoin(<<gw.hostmaster, gw.apex, state.Zone>>),
        Serial |-> serial,
        Minttl |-> gw.ttlSOA])

\* ns1, ns2 and nameservers
ns1(state) == RR(state.Zone, "NS", gw.ttlSOA, DnsJoin(<<gw.apex, state.Zone>>))

ns2(state) == RR(state.Zone, "NS", gw.ttlSOA, DnsJoin(<<gw.secondNS, state.Zone>>))

nameservers(state) ==
    <<ns1(state)>> \o (IF gw.secondNS = <<>> THEN <<>> ELSE <<ns2(state)>>)

\* The addresses every resource holds under one key, appended in table order
RECURSIVE AllTablesAddrs(_, _)
AllTablesAddrs(key, i) ==
    IF i > Len(gw.Resources) THEN <<>>
    ELSE lookup(gw.Resources[i], <<key>>).addrs \o AllTablesAddrs(key, i + 1)

\* SelfAddress, the external-address callback installed by setup
SelfAddress(state) ==
    LET addrs1 == AllTablesAddrs(gw.apex, 1)
        addrs2 == AllTablesAddrs(gw.secondNS, 1)
    IN  A(gw.apex \o <<".">> \o state.Zone, addrs1)
        \o (IF state.QType = "NS"
            THEN A(gw.secondNS \o <<".">> \o state.Zone, addrs2)
            ELSE <<>>)

ExternalAddrFunc(state) == SelfAddress(state)

-----------------------------------------------------------------------------
(* The CNAME chain resolver *)

\* canonicalizeDNSName: lowercase, with a closing dot
canonicalizeDNSName(name) ==
    LET l == ToLower(name)
    IN  IF HasSuffix(l, <<".">>) THEN l ELSE l \o <<".">>

\* A variant of the chain resolver without the loop detection: it never
\* consults the visited map
RECURSIVE resolveCNAMEChainNoLoopCheck(_, _, _, _)
resolveCNAMEChainNoLoopCheck(cname, zone, maxDepth, visited) ==
    IF maxDepth <= 0
    THEN [addrs |-> <<>>, err |-> "depth", panic |-> FALSE, probed |-> <<>>,
          visited |-> visited]
    ELSE
    LET canonicalCname == canonicalizeDNSName(cname)
        canonicalZone == canonicalizeDNSName(zone)
    IN  IF stripDomainPanics(canonicalCname, canonicalZone)
        THEN [addrs |-> <<>>, err |-> "none", panic |-> TRUE, probed |-> <<>>,
              visited |-> visited]
        ELSE
        LET found == getMatchingAddressesWithCNAME(
                         getQueryIndexKeySets(canonicalCname, canonicalZone))
        IN  IF Len(found.addrs) > 0
            THEN [addrs |-> found.addrs, err |-> "none", panic |-> FALSE,
                  probed |-> <<canonicalCname>>, visited |-> visited]
            ELSE IF Len(found.cnames) > 0
            THEN LET next == resolveCNAMEChainNoLoopCheck(
                                 found.cnames[1], canonicalZone, maxDepth - 1, visited)
                 IN  [next EXCEPT !.probed = <<canonicalCname>> \o @]
            ELSE IF ~HasSuffix(canonicalCname, canonicalZone)
            THEN [addrs |-> <<>>, err |-> "none", panic |-> FALSE,
                  probed |-> <<canonicalCname>>, visited |-> visited]
            ELSE [addrs |-> <<>>, err |-> "deadend", panic |-> FALSE,
                  probed |-> <<canonicalCname>>, visited |-> visited]

\* resolveCNAMEChainWithVisited. err is "none", "depth", "loop" or "deadend";
\* panic is the slice-bounds panic of stripDomain; probed lists the canonical
\* names the pipeline was probed with, in order; visited is the visited map
\* as the call leaves it (the deferred delete has run).
RECURSIVE resolveCNAMEChainWithVisited(_, _, _, _)
resolveCNAMEChainWithVisited(cname, zone, maxDepth, visited) ==
    IF maxDepth <= 0
    THEN [addrs |-> <<>>, err |-> "depth", panic |-> FALSE, probed |-> <<>>,
          visited |-> visited]
    ELSE
    LET canonicalCname == canonicalizeDNSName(cname)
        canonicalZone == canonicalizeDNSName(zone)
        marked == visited \cup {canonicalCname}
    IN  IF canonicalCname \in visited
        THEN [addrs |-> <<>>, err |-> "loop", panic |-> FALSE, probed |-> <<>>,
              visited |-> visited]
        ELSE IF stripDomainPanics(canonicalCname, canonicalZone)
        THEN [addrs |-> <<>>, err |-> "none", panic |-> TRUE, probed |-> <<>>,
              visited |-> marked \ {canonicalCname}]
        ELSE
        LET found == getMatchingAddressesWithCNAME(
                         getQueryIndexKeySets(canonicalCname, canonicalZone))
        IN  IF Len(found.addrs) > 0
            THEN [addrs |-> found.addrs, err |-> "none", panic |-> FALSE,
                  probed |-> <<canonicalCname>>,
                  visited |-> marked \ {canonicalCname}]
            ELSE IF Len(found.cnames) > 0
            THEN LET next == resolveCNAMEChainWithVisited(
                                 found.cnames[1], canonicalZone, maxDepth - 1, marked)
                 IN  [next EXCEPT !.probed = <<canonicalCname>> \o @,
                                  !.visited = @ \ {canonicalCname}]
            ELSE IF ~HasSuffix(canonicalCname, canonicalZone)
            THEN [addrs |-> <<>>, err |-> "none", panic |-> FALSE,
                  probed |-> <<canonicalCname>>,
                  visited |-> marked \ {canonicalCname}]
            ELSE [addrs |-> <<>>, err |-> "deadend", panic |-> FALSE,
                  probed |-> <<canonicalCname>>,
                  visited |-> marked \ {canonicalCname}]

\* resolveCNAMEChain: a fresh visited map
resolveCNAMEChain(cname, zone, maxDepth) ==
    resolveCNAMEChainWithVisited(cname, zone, maxDepth, {})

-----------------------------------------------------------------------------
(* Response assembly *)

\* new(dns.Msg) after SetReply
NewMsg == [Rcode |-> "NOERROR", Answer |-> <<>>, Ns |-> <<>>, Extra |-> <<>>, panic |-> FALSE]

\* setNegativeResponse
setNegativeResponse(m, state, serial) == [m EXCEPT !.Ns = <<soa(state, serial)>>]

\* addResolvedAddresses
addResolvedAddresses(m, cname, addrs, needIPv4, needIPv6) ==
    LET with4 == IF needIPv4 /\ Len(ipv4Only(addrs)) > 0
                 THEN m.Answer \o A(Fqdn(cname), ipv4Only(addrs))
                 ELSE m.Answer
        with6 == IF needIPv6 /\ Len(ipv6Only(addrs)) > 0
                 THEN with4 \o AAAA(Fqdn(cname), ipv6Only(addrs))
                 ELSE with4
    IN  [m EXCEPT !.Answer = with6]

\* processCNAMEWithResolution
processCNAMEWithResolution(m, state, cname, needIPv4, needIPv6) ==
    LET m1 == [m EXCEPT !.Answer = Append(m.Answer, CNAME(state.Name, cname))]
        res == resolveCNAMEChain(cname, state.Zone, gw.CNAMEMaxDepth)
    IN  IF res.panic THEN [m1 EXCEPT !.panic = TRUE]
        ELSE IF res.err # "none" THEN m1
        ELSE IF Len(res.addrs) = 0 THEN m1
        ELSE addResolvedAddresses(m1, cname, res.addrs, needIPv4, needIPv6)

\* A variant of handleAddressQuery whose negative response is a name error at
\* the zone apex too
handleAddressQueryApexError(m, state, addrs, cnames, isRootZoneQuery, isIPv4, serial) ==
    IF Len(addrs) = 0 /\ Len(cnames) = 0
    THEN [setNegativeResponse(m, state, serial) EXCEPT !.Rcode = "NXDOMAIN"]
    ELSE IF Len(cnames) > 0
    THEN processCNAMEWithResolution(m, state, cnames[1], isIPv4, ~isIPv4)
    ELSE IF isIPv4 THEN [m EXCEPT !.Answer = A(state.Name, addrs)]
    ELSE [m EXCEPT !.Answer = AAAA(state.Name, addrs)]

\* handleAddressQuery
handleAddressQuery(m, state, addrs, cnames, isRootZoneQuery, isIPv4, serial) ==
    IF Len(addrs) = 0 /\ Len(cnames) = 0
    THEN LET neg == setNegativeResponse(m, state, serial)
         IN  IF ~isRootZoneQuery THEN [neg EXCEPT !.Rcode = "NXDOMAIN"] ELSE neg
    ELSE IF Len(cnames) > 0
    THEN processCNAMEWithResolution(m, state, cnames[1], isIPv4, ~isIPv4)
    ELSE IF isIPv4 THEN [m EXCEPT !.Answer = A(state.Name, addrs)]
    ELSE [m EXCEPT !.Answer = AAAA(state.Name, addrs)]

\* handleDataQuery
handleDataQuery(m, state, data, isRootZoneQuery, noDataFound, serial) ==
    IF Len(data) = 0
    THEN LET neg == setNegativeResponse(m, state, serial)
         IN  IF ~isRootZoneQuery /\ noDataFound
             THEN [neg EXCEPT !.Rcode = "NXDOMAIN"] ELSE neg
    ELSE [m EXCEPT !.Answer = TXT(state.Name, data)]

\* strings.Contains
Contains(s, sub) ==
    \E i \in 0..(Len(s) - Len(sub)) : SubSeq(s, i + 1, i + Len(sub)) = sub

\* The substring handleCNAMEQuery looks for in the query name
Nonexistent == <<"n", "o", "n", "e", "x", "i", "s", "t", "e", "n", "t">>

\* handleCNAMEQuery
handleCNAMEQuery(m, state, cnames, isRootZoneQuery, noDataFound, serial) ==
    IF Len(cnames) = 0
    THEN LET neg == setNegativeResponse(m, state, serial)
         IN  IF noDataFound /\ ~isRootZoneQuery
                /\ Contains(ToLower(state.Name), Nonexistent)
             THEN [neg EXCEPT !.Rcode = "NXDOMAIN"] ELSE neg
    ELSE [m EXCEPT !.Answer = <<CNAME(state.Name, cnames[1])>>]

\* addExtraRecords
addExtraRecords(m, state) ==
    LET addr == ExternalAddrFunc(state)
    IN  [m EXCEPT !.Extra = @ \o [i \in 1..Len(addr) |-> [addr[i] EXCEPT !.ttl = gw.ttlSOA]]]

\* handleNSQuery
handleNSQuery(m, state, isRootZoneQuery, serial) ==
    IF isRootZoneQuery
    THEN addExtraRecords([m EXCEPT !.Answer = nameservers(state)], state)
    ELSE setNegativeResponse(m, state, serial)

\* processQueryResponse
processQueryResponse(m, state, ipv4Addrs, ipv6Addrs, raws, cnames, isRootZoneQuery, noDataFound, serial) ==
    CASE state.QType = "A" ->
             handleAddressQuery(m, state, ipv4Addrs, cnames, isRootZoneQuery, TRUE, serial)
      [] state.QType = "AAAA" ->
             LET r == handleAddressQuery(m, state, ipv6Addrs, cnames, isRootZoneQuery, FALSE, serial)
             IN  IF Len(ipv6Addrs) = 0 /\ Len(cnames) = 0 /\ Len(ipv4Addrs) > 0
                 THEN [r EXCEPT !.Rcode = "NOERROR"] ELSE r
      [] state.QType = "TXT" ->
             handleDataQuery(m, state, raws, isRootZoneQuery, noDataFound, serial)
      [] state.QType = "CNAME" ->
             handleCNAMEQuery(m, state, cnames, isRootZoneQuery, noDataFound, serial)
      [] state.QType = "SOA" -> [m EXCEPT !.Answer = <<soa(state, serial)>>]
      [] state.QType = "NS" -> handleNSQuery(m, state, isRootZoneQuery, serial)
      [] OTHER -> setNegativeResponse(m, state, serial)

-----------------------------------------------------------------------------
(* The query dispatcher *)

\* plugin.Zones(zones).Matches(qname): the longest zone the name lies in, the
\* first of them among equals; <<>> when there is none.
RECURSIVE MatchesFrom(_, _, _, _)
MatchesFrom(zones, qname, i, best) ==
    IF i > Len(zones) THEN best
    ELSE IF IsSubDomain(zones[i], qname) /\ Len(zones[i]) > Len(best)
    THEN MatchesFrom(zones, qname, i + 1, zones[i])
    ELSE MatchesFrom(zones, qname, i + 1, best)

Matches(zones, qname) == MatchesFrom(zones, qname, 1, <<>>)

\* validateQueryZone: the matched zone in the letter case of the query; <<>>
\* when no zone matches.
validateQueryZone(qname) ==
    LET zone == Matches(gw.Zones, qname)
    IN  IF zone = <<>> THEN <<>>
        ELSE SubSeq(qname, Len(qname) - Len(zone) + 1, Len(qname))

\* A variant of request.Request whose Name() keeps the case of the question
RequestKeepCase(qname, qtype, zone) ==
    [Name |-> qname, QName |-> qname, QType |-> qtype, Zone |-> zone]

\* request.Request: Name() is the lowercased question name, QName() keeps its case
Request(qname, qtype, zone) ==
    [Name |-> ToLower(qname), QName |-> qname, QType |-> qtype, Zone |-> zone]

\* dnsutil.TrimZone: the name without the labels of the zone ("" on overshoot)
TrimZone(q, z) ==
    LET ls == Labels(q)
        zl == CountLabel(z)
    IN  IF zl >= Len(ls) THEN <<>> ELSE JoinDot(SubSeq(ls, 1, Len(ls) - zl))

\* The records of the callback that serveSubApex keeps for the query type
RECURSIVE SubApexAnswer(_, _)
SubApexAnswer(addr, state) ==
    IF addr = <<>> THEN <<>>
    ELSE LET rr == [Head(addr) EXCEPT !.ttl = gw.ttlSOA, !.name = state.QName]
         IN  (IF state.QType \in {"A", "AAAA"} /\ rr.type = state.QType
              THEN <<rr>> ELSE <<>>)
             \o SubApexAnswer(Tail(addr), state)

\* serveSubApex: the message it writes (it always returns code 0, no error)
serveSubApex(state, serial) ==
    LET base == TrimZone(state.Name, state.Zone)
        nxdomain == [NewMsg EXCEPT !.Rcode = "NXDOMAIN", !.Ns = <<soa(state, serial)>>]
    IN  IF CountLabel(base) # 2 THEN nxdomain
        ELSE IF base # gw.apex THEN nxdomain
        ELSE LET answer == SubApexAnswer(ExternalAddrFunc(state), state)
             IN  [NewMsg EXCEPT !.Answer = answer,
                                !.Ns = IF Len(answer) = 0
                                       THEN <<soa(state, serial)>> ELSE <<>>]

\* checkApexQuery over gw.Zones[i..]: "root" (the name is a zone), "subapex"
\* (the name lies under <apex>.<zone>: serveSubApex handles it) or "regular"
RECURSIVE checkApexQuery(_, _)
checkApexQuery(state, i) ==
    IF i > Len(gw.Zones) THEN "regular"
    ELSE IF state.Name = gw.Zones[i] THEN "root"
    ELSE IF IsSubDomain(gw.apex \o <<".">> \o gw.Zones[i], state.Name) THEN "subapex"
    ELSE checkApexQuery(state, i + 1)

\* A variant of the fall-through test that asks only whether fall-through is
\* configured, not whether the name lies in one of its zones
FallThroughAnyZone(qname) == gw.Fall # <<>>

\* gw.Fall.Through(qname)
FallThrough(qname) == Matches(gw.Fall, qname) # <<>>

\* Whether soa(), and so calculateSerial, ran while the message was built
SoaCalled(m) ==
    \/ \E i \in 1..Len(m.Ns) : m.Ns[i].type = "SOA"
    \/ \E i \in 1..Len(m.Answer) : m.Answer[i].type = "SOA"

\* What a ServeDNS call does: kind is "next" (delegated to the next handler),
\* "servfail" (returned without writing), "written" (a message was written)
\* or "panic"; code and err are the values returned, msg the message written,
\* found the result of the lookup pipeline when it ran.
Outcome(kind, code, err, m, found, apexKind) ==
    [kind |-> kind, code |-> code, err |-> err, msg |-> m,
     found |-> found, apex |-> apexKind, soaCalled |-> SoaCalled(m)]

\* A variant of the readiness check that always passes
ReadyAlways == TRUE

\* gw.Controller.HasSynced(), as ServeDNS reads it
Ready == hasSynced

ServeDNS(qname, qtype, now) ==
    LET zone == validateQueryZone(qname)
        state == Request(qname, qtype, zone)
        serial == calculateSerial(now, lastSerial, dirty).serial
    IN  IF zone = <<>>
        THEN Outcome("next", "NEXT", FALSE, NewMsg, NoData, "none")
        ELSE IF ~Ready
        THEN Outcome("servfail", "SERVFAIL", TRUE, NewMsg, NoData, "none")
        ELSE
        LET apexKind == checkApexQuery(state, 1)
        IN  IF apexKind = "subapex"
            THEN Outcome("written", "NOERROR", FALSE, serveSubApex(state, serial),
                         NoData, apexKind)
            ELSE
            LET indexKeySets == getQueryIndexKeySets(qname, zone)
                found == getMatchingAddressesWithCNAME(indexKeySets)
                noDataFound == ~HasData(found)
                isRootZoneQuery == apexKind = "root"
            IN  IF noDataFound /\ FallThrough(qname)
                THEN Outcome("next", "NEXT", FALSE, NewMsg, found, apexKind)
                ELSE
                LET m == processQueryResponse(NewMsg, state,
                             ipv4Only(found.addrs), ipv6Only(found.addrs),
                             found.raws, found.cnames,
                             isRootZoneQuery, noDataFound, serial)
                IN  IF m.panic
                    THEN Outcome("panic", "NONE", FALSE, NewMsg, found, apexKind)
                    ELSE Outcome("written",
                                 IF m.Rcode = "NXDOMAIN" THEN "NXDOMAIN" ELSE "NOERROR",
                                 FALSE, m, found, apexKind)

-----------------------------------------------------------------------------
(* Names, configurations and snapshots of the model *)

\* The zone "z." and the names of the model
Z == <<"z", ".">>
Name_awz == <<"a", ".", "w", ".", "z", ".">>          \* a.w.z.
Name_bwz == <<"b", ".", "w", ".", "z", ".">>          \* b.w.z.
Name_AwZ == <<"A", ".", "w", ".", "Z", ".">>          \* A.w.Z.
Name_dkz == <<"d", ".", "k", ".", "z", ".">>          \* d.k.z., the name of the apex label
Name_ay == <<"a", ".", "y", ".">>                     \* a.y., in no configured zone
Name_wz == <<"w", ".", "z", ".">>                     \* w.z., a name below the zone
Name_kz == <<"k", ".", "z", ".">>                     \* k.z., a one-label name
Name_nonexistent == Nonexistent \o <<".">> \o Z         \* nonexistent.z.

\* Index keys: hosts as the indexer stores them, without closing dot
Key_awz == <<"a", ".", "w", ".", "z">>                \* a.w.z
Key_aw == <<"a", ".", "w">>                           \* a.w (a service name.namespace)
Key_wild == <<"*", ".", "w", ".", "z">>               \* *.w.z
Key_dk == <<"d", ".", "k">>                           \* d.k (the apex label)
Key_z == <<"z">>                                      \* z (a host equal to the zone)
Key_bwz == <<"b", ".", "w", ".", "z">>                \* b.w.z
Key_k == <<"k">>                                      \* k (a one-label apex label)

\* Program defaults (gateway.go)
ttlDefault == 60
ttlSOADefault == 60
defaultCNAMEMaxDepth == 10

\* newGateway, with the zone and the apex label of the model configured
newGateway ==
    [Zones |-> <<Z>>,
     Resources |-> staticResources,
     ConfiguredResources |-> <<>>,
     apex |-> Key_dk,
     secondNS |-> <<>>,
     hostmaster |-> <<"h">>,
     Fall |-> <<>>,
     ttlLow |-> ttlDefault,
     ttlSOA |-> ttlSOADefault,
     CNAMEMaxDepth |-> defaultCNAMEMaxDepth]

\* The "resources" lines of the configurations considered; the last names a
\* kind that is no static resource.
ResourceConfigs ==
    { <<"HTTPRoute", "Ingress", "Service", "DNSEndpoint">>,
      DefaultResources,
      <<"Service", "Ingress", "HTTPRoute">>,
      <<"Pod", "DNSEndpoint", "Ingress", "HTTPRoute">> }

\* The "fallthrough" lines considered: none, the zone, or a zone below it
FallConfigs == { <<>>, <<Z>>, <<Name_wz>> }

\* parse: newGateway, then the resources and fallthrough properties
Configure(resources, fall) ==
    [newGateway EXCEPT !.Resources = updateResources(resources),
                       !.ConfiguredResources = resources,
                       !.Fall = fall]

Configs ==
    {Configure(r, <<>>) : r \in ResourceConfigs}
        \cup {Configure(DefaultResources, f) : f \in FallConfigs \ {<<>>}}

\* The entries a snapshot may hold: table, key and the data indexed under it.
\* The host part of an address names the entry it comes from.
Entry(table, key, addrs, raws, cnames) ==
    [table |-> table, key |-> key,
     data |-> [addrs |-> addrs, raws |-> raws, cnames |-> cnames]]

Entries ==
    { Entry("HTTPRoute", Key_awz, <<<<4, 1>>>>, <<>>, <<>>),
      Entry("HTTPRoute", Key_wild, <<<<4, 2>>>>, <<>>, <<>>),
      Entry("Ingress", Key_awz, <<<<4, 3>>>>, <<>>, <<>>),
      Entry("Ingress", Key_wild, <<<<4, 4>>>>, <<>>, <<>>),
      Entry("Ingress", Key_z, <<<<4, 5>>>>, <<>>, <<>>),
      Entry("Service", Key_aw, <<<<4, 6>>, <<6, 6>>>>, <<>>, <<>>),
      Entry("Service", Key_awz, <<<<6, 7>>>>, <<>>, <<>>),
      Entry("Service", Key_dk, <<<<4, 8>>>>, <<>>, <<>>),
      Entry("DNSEndpoint", Key_awz, <<>>, <<<<"t">>>>, <<>>),
      Entry("DNSEndpoint", Key_wild, <<>>, <<>>, <<Name_dkz>>) }

\* The number of entries of a snapshot
MaxEntries == 3

\* The data a set of entries leaves under one key of one table
RECURSIVE MergeEntries(_)
MergeEntries(es) ==
    IF es = {} THEN NoData
    ELSE LET e == CHOOSE x \in es : TRUE
             rest == MergeEntries(es \ {e})
         IN  [addrs |-> e.data.addrs \o rest.addrs,
              raws |-> e.data.raws \o rest.raws,
              cnames |-> e.data.cnames \o rest.cnames]

TablesOf(es) ==
    [t \in {staticResources[i] : i \in 1..Len(staticResources)} |->
        [k \in {e.key : e \in {x \in es : x.table = t}} |->
            MergeEntries({e \in es : e.table = t /\ e.key = k})]]

Snapshots == {TablesOf(es) : es \in {x \in SUBSET Entries : Cardinality(x) <= MaxEntries}}

\* The queries of the model
QNames == {Name_awz, Name_bwz, Name_AwZ, Name_dkz, Name_kz, Z, Name_ay, Name_nonexistent}
QTypes == {"A", "AAAA", "TXT", "CNAME", "SOA", "NS", "SRV"}

\* The readings of time.Now().Unix(): seconds, as an int64
ClockStart == <<0, 0, 1000>>
QueryClock == {<<0, 0, 1001>>}

-----------------------------------------------------------------------------
(* State and actions *)

NoResp == [called |-> FALSE]
NoHist == [n |-> 0]
NoXfr == [started |-> FALSE]

\* The state after construction and configuration. The serial cell starts
\* from the clock with the dirty flag set.
Init ==
    /\ gw \in Configs
    /\ hasSynced = FALSE
    /\ tables \in Snapshots
    /\ stores = <<>>
    /\ lastSerial = Uint32(ClockStart)
    /\ dirty = TRUE
    /\ hist = NoHist
    /\ resp = NoResp
    /\ xfr = NoXfr

\* The indexer layer completes its initial synchronisation
Sync ==
    /\ ~hasSynced
    /\ hasSynced' = TRUE
    /\ UNCHANGED <<gw, tables, stores, lastSerial, dirty, hist, resp, xfr>>

\* One ServeDNS call, start to return. Calls are taken one at a time: they
\* share no mutable state but the serial cell, which the mutex serialises.
Query(qname, qtype, now) ==
    /\ ~resp.called
    /\ resp' = [called |-> TRUE, qname |-> qname, qtype |-> qtype,
                synced |-> hasSynced, out |-> ServeDNS(qname, qtype, now)]
    /\ LET cell == calculateSerial(now, lastSerial, dirty)
       IN  /\ lastSerial' = IF resp'.out.soaCalled THEN cell.lastSerial ELSE lastSerial
           /\ dirty' = IF resp'.out.soaCalled THEN cell.dirty ELSE dirty
    /\ UNCHANGED <<gw, hasSynced, tables, stores, hist, xfr>>

\* The caller has its answer; the next query can be served
Reply ==
    /\ resp.called
    /\ resp' = NoResp
    /\ UNCHANGED <<gw, hasSynced, tables, stores, lastSerial, dirty, hist, xfr>>

Next ==
    \/ Sync
    \/ \E qname \in QNames, qtype \in QTypes, now \in QueryClock : Query(qname, qtype, now)
    \/ Reply

Spec == Init /\ [][Next]_vars

-----------------------------------------------------------------------------
(* Properties of the lookup pipeline and of the dispatcher *)

\* The last call reached the lookup pipeline (zone matched, indexer synced,
\* name outside the apex-label subtree)
PipelineRan == resp.called /\ resp.out.apex \in {"root", "regular"}

\* The (key set, table) pairs of the last call whose lookup gives data
KeySetsOfResp == getQueryIndexKeySets(resp.qname, validateQueryZone(resp.qname))

PairsWithData ==
    {p \in (1..Len(KeySetsOfResp)) \X (1..Len(gw.Resources)) :
        HasData(lookup(gw.Resources[p[2]], KeySetsOfResp[p[1]]))}

\* Pair p comes before pair q: key sets outside, tables inside
PairBefore(p, q) == p[1] < q[1] \/ (p[1] = q[1] /\ p[2] < q[2])

FirstPairWithData == CHOOSE p \in PairsWithData : \A q \in PairsWithData : q = p \/ PairBefore(p, q)

\* C1: getMatchingAddressesWithCNAME returns exactly the result of the first
\* (key set, table) pair, key sets in list order outside and tables in
\* configured order inside, whose lookup has addresses, texts or cnames; it
\* returns the empty triple if and only if every pair gives an empty result.
C1_FirstPairInKeySetMajorOrder ==
    PipelineRan =>
        /\ (PairsWithData = {}) <=> (resp.out.found = NoData)
        /\ PairsWithData # {} =>
              resp.out.found = lookup(gw.Resources[FirstPairWithData[2]],
                                      KeySetsOfResp[FirstPairWithData[1]])

\* C1 witness: the result came from the second key set and not from the first
\* table, while the first table has data for no key set tried before it.
C1_Witness ==
    /\ PipelineRan
    /\ PairsWithData # {}
    /\ FirstPairWithData[1] = 2
    /\ FirstPairWithData[2] >= 2
    /\ Cardinality(PairsWithData) >= 2

\* The names of the form L.w.z. with a single label L, their specific keys
\* (the full name and the zone-less name, lowercase) and their wildcard keys
SingleLabelNames == {Name_awz, Name_bwz, Name_AwZ}

SpecificKeysOf(qname) ==
    LET n == ToLower(qname)
    IN  <<SubSeq(n, 1, Len(n) - 1), SubSeq(n, 1, Len(n) - Len(Z) - 1)>>

WildcardKeys == <<Key_wild, <<"*", ".", "w">>>>

\* The tables of gw.Resources, by position, that give data for the keys
TablesWithData(keys) ==
    {i \in 1..Len(gw.Resources) : HasData(lookup(gw.Resources[i], keys))}

Min(S) == CHOOSE x \in S : \A y \in S : x <= y

\* Owner name, type and data of the records of the answer section
AnswerTriples(m) ==
    [i \in 1..Len(m.Answer) |-> <<m.Answer[i].name, m.Answer[i].type, m.Answer[i].data>>]

\* What the dispatcher answers to a query of the last call's type from a
\* record that carries data of one kind only (the snapshot's records do):
\* the addresses of the family asked for, the texts, or the first cname.
AnswerOfType(qname, qtype, data) ==
    LET owner == ToLower(qname)
    IN  CASE qtype = "A" /\ data.cnames = <<>> ->
                 [i \in 1..Len(ipv4Only(data.addrs)) |-> <<owner, "A", ipv4Only(data.addrs)[i]>>]
          [] qtype = "AAAA" /\ data.cnames = <<>> ->
                 [i \in 1..Len(ipv6Only(data.addrs)) |-> <<owner, "AAAA", ipv6Only(data.addrs)[i]>>]
          [] qtype = "TXT" ->
                 [i \in 1..Len(data.raws) |-> <<owner, "TXT", <<data.raws[i]>>>>]
          [] qtype = "CNAME" /\ data.cnames # <<>> ->
                 << <<owner, "CNAME", data.cnames[1]>> >>
          [] OTHER -> <<>>

\* The query types whose answer is the data of the record found
DataTypes == {"A", "AAAA", "TXT", "CNAME"}

\* The case the direct answer of AnswerOfType covers: not an address query on
\* a record that carries cnames (the chain resolver then adds records)
DirectAnswer(qtype, data) == qtype \in DataTypes /\ (qtype \in {"A", "AAAA"} => data.cnames = <<>>)

\* C2: for a query L.w.z. that reaches the lookup pipeline: if some table
\* gives data for the exact name, the answer is built from the exact record of
\* the first such table, also when a wildcard record *.w.z exists in any table
\* (a higher-priority one included); if no table gives data for the exact
\* name and some table holds *.w.z, the answer is the wildcard record's data
\* of the first such table, with the queried name as owner name.
C2_ExactRecordMasksWildcard ==
    (/\ resp.called
     /\ resp.out.apex = "regular"
     /\ resp.qname \in SingleLabelNames) =>
        LET exact == TablesWithData(SpecificKeysOf(resp.qname))
            wild == TablesWithData(WildcardKeys)
            exactData == lookup(gw.Resources[Min(exact)], SpecificKeysOf(resp.qname))
            wildData == lookup(gw.Resources[Min(wild)], WildcardKeys)
        IN  /\ exact # {} =>
                  /\ resp.out.found = exactData
                  /\ DirectAnswer(resp.qtype, exactData) =>
                        AnswerTriples(resp.out.msg) = AnswerOfType(resp.qname, resp.qtype, exactData)
            /\ (exact = {} /\ wild # {}) =>
                  /\ resp.out.found = wildData
                  /\ DirectAnswer(resp.qtype, wildData) =>
                        AnswerTriples(resp.out.msg) = AnswerOfType(resp.qname, resp.qtype, wildData)
                  /\ (resp.qtype \in DataTypes /\ resp.out.msg.Answer # <<>>) =>
                        resp.out.msg.Answer[1].name = ToLower(resp.qname)

\* C2 witness: an A query for a.w.z. answered from the exact record of a table
\* while a table of higher priority holds the wildcard *.w.z
C2_Witness ==
    /\ resp.called
    /\ resp.out.apex = "regular"
    /\ resp.qname = Name_awz
    /\ resp.qtype = "A"
    /\ TablesWithData(SpecificKeysOf(Name_awz)) # {}
    /\ TablesWithData(WildcardKeys) # {}
    /\ Min(TablesWithData(WildcardKeys)) < Min(TablesWithData(SpecificKeysOf(Name_awz)))
    /\ resp.out.msg.Answer # <<>>
    /\ resp.out.msg.Answer[1].data \in
          {lookup(gw.Resources[Min(TablesWithData(SpecificKeysOf(Name_awz)))],
                  SpecificKeysOf(Name_awz)).addrs[1]}

\* Position of a resource name in the list the configuration gave (0 if the
\* configuration does not name it)
ConfigIndex(name) ==
    LET at == {i \in 1..Len(gw.ConfiguredResources) : gw.ConfiguredResources[i] = name}
    IN  IF at = {} THEN 0 ELSE Min(at)

IsConfigured(name) == ConfigIndex(name) > 0

\* The table holds, under the exact name of the last call, a record with
\* addresses (resp. with any data)
HoldsAddrs(name) == lookup(name, SpecificKeysOf(resp.qname)).addrs # <<>>
HoldsData(name) == HasData(lookup(name, SpecificKeysOf(resp.qname)))

\* The answer of the last call is the IPv4 addresses the table holds under the
\* exact name
AnsweredFrom(name) ==
    AnswerTriples(resp.out.msg) =
        AnswerOfType(resp.qname, "A", lookup(name, SpecificKeysOf(resp.qname)))

RouteTables == {"HTTPRoute", "TLSRoute", "GRPCRoute"}

\* An A query for a name L.w.z. reached the lookup pipeline
AddressQueryRan ==
    /\ resp.called
    /\ resp.out.apex = "regular"
    /\ resp.qname \in SingleLabelNames
    /\ resp.qtype = "A"

\* C3 (as stated): for every configured set of resources, a name with records
\* in a route table and in the Ingress table is answered from the route table,
\* and a name with records in the Ingress table and in the Service table (and
\* in no route table) is answered from the Ingress table.
C3_RoutesThenIngressThenService ==
    AddressQueryRan =>
        /\ \A r \in RouteTables :
              (/\ IsConfigured(r) /\ IsConfigured("Ingress")
               /\ HoldsAddrs(r) /\ HoldsAddrs("Ingress")
               /\ \A o \in RouteTables : (IsConfigured(o) /\ HoldsData(o)) => o = r)
                  => AnsweredFrom(r)
        /\ (/\ IsConfigured("Ingress") /\ IsConfigured("Service")
            /\ HoldsAddrs("Ingress") /\ HoldsAddrs("Service")
            /\ \A o \in RouteTables : IsConfigured(o) => ~HoldsData(o))
               => AnsweredFrom("Ingress")

\* C3 (amended): precedence follows the order in which the configuration
\* names the resources: of two configured tables that hold addresses for the
\* name, the one named earlier answers when no table named before it holds
\* data for the name.  With the default list, or a list in the static order,
\* that is routes before Ingress before Service.
C3_PrecedenceIsConfiguredOrder ==
    AddressQueryRan =>
        \A x, y \in {staticResources[i] : i \in 1..Len(staticResources)} :
            (/\ IsConfigured(x) /\ IsConfigured(y)
             /\ ConfigIndex(x) < ConfigIndex(y)
             /\ HoldsAddrs(x) /\ HoldsAddrs(y)
             /\ \A o \in {staticResources[i] : i \in 1..Len(staticResources)} :
                   (IsConfigured(o) /\ ConfigIndex(o) < ConfigIndex(x)) => ~HoldsData(o))
                => AnsweredFrom(x)

\* C3 witness: the configuration names Service before Ingress, both tables
\* hold addresses for the name, and the answer is the Service table's.
C3_Witness ==
    /\ AddressQueryRan
    /\ IsConfigured("Service") /\ IsConfigured("Ingress")
    /\ ConfigIndex("Service") < ConfigIndex("Ingress")
    /\ HoldsAddrs("Service") /\ HoldsAddrs("Ingress")
    /\ ipv4Only(lookup("Service", SpecificKeysOf(resp.qname)).addrs) # <<>>
    /\ AnsweredFrom("Service")
    /\ ~AnsweredFrom("Ingress")

\* C10: while the indexer has not synced, ServeDNS on a name of a configured
\* zone returns the server-failure code with a non-nil error and writes no
\* response, whether the name is a regular name, the zone apex, or a name
\* under the apex labels; neither the apex handling nor a table lookup (nor
\* the serial computation) has taken place.
C10_UnsyncedIsServerFailure ==
    (/\ resp.called
     /\ ~resp.synced
     /\ validateQueryZone(resp.qname) # <<>>) =>
        /\ resp.out.kind = "servfail"
        /\ resp.out.code = "SERVFAIL"
        /\ resp.out.err
        /\ resp.out.msg = NewMsg
        /\ resp.out.apex = "none"
        /\ resp.out.found = NoData
        /\ ~resp.out.soaCalled

\* C10 witness: an unsynced call for a name under the apex labels, for which
\* a synced gateway would answer from the sub-apex handler, fails.
C10_Witness ==
    /\ resp.called
    /\ ~resp.synced
    /\ resp.qname = Name_dkz
    /\ resp.out.kind = "servfail"
    /\ resp.out.err

\* The fall-through zones of the configuration contain the name
FallEnabledFor(qname) ==
    \E i \in 1..Len(gw.Fall) : IsSubDomain(gw.Fall[i], qname)

\* The name is <apex>.<zone> or lies below it, for some configured zone
UnderApexLabel(qname) ==
    \E i \in 1..Len(gw.Zones) :
        IsSubDomain(gw.apex \o <<".">> \o gw.Zones[i], qname)

\* C11: a synced call for a name of a configured zone is delegated to the
\* next handler if and only if the lookup pipeline ran and returned no
\* addresses, no text records and no CNAME targets, and the name lies in a
\* zone for which fall-through is enabled. A call whose lookup returns data,
\* a call for a name outside the fall-through zones and a call for a name
\* under <apex>.<zone> are never delegated.
C11_DelegatedIffNoDataAndFallThrough ==
    (/\ resp.called
     /\ resp.synced
     /\ validateQueryZone(resp.qname) # <<>>) =>
        /\ (resp.out.kind = "next") <=>
              (/\ PipelineRan
               /\ PairsWithData = {}
               /\ FallEnabledFor(resp.qname))
        /\ UnderApexLabel(resp.qname) => resp.out.kind = "written"
        /\ resp.out.kind = "next" => resp.out.msg = NewMsg /\ ~resp.out.soaCalled

\* C11 witness: with fall-through enabled for a zone below the served zone,
\* a call for a name of that zone that has no data is delegated.
C11_Witness ==
    /\ resp.called
    /\ resp.synced
    /\ gw.Fall = <<Name_wz>>
    /\ resp.qname = Name_bwz
    /\ resp.out.found = NoData
    /\ resp.out.kind = "next"

\* The data found holds no record of the queried type (for an address query
\* it holds no cname either, which would be answered by redirection)
NoneOfQueriedType(qtype, data) ==
    CASE qtype = "A" -> ipv4Only(data.addrs) = <<>> /\ data.cnames = <<>>
      [] qtype = "AAAA" -> ipv6Only(data.addrs) = <<>> /\ data.cnames = <<>>
      [] qtype = "TXT" -> data.raws = <<>>
      [] qtype = "CNAME" -> data.cnames = <<>>
      [] OTHER -> FALSE

\* The message is the negative response: no answer, the zone's SOA alone in
\* the authority section
IsNegative(m) ==
    /\ m.Answer = <<>>
    /\ Len(m.Ns) = 1
    /\ m.Ns[1].type = "SOA"
    /\ m.Ns[1].name = validateQueryZone(resp.qname)

\* C12: when the pipeline finds records for the queried name but none of the
\* queried type, the response has an empty answer section, the zone SOA in
\* the authority section and the success code, not name error.
C12_NoDataIsSuccess ==
    (/\ PipelineRan
     /\ HasData(resp.out.found)
     /\ NoneOfQueriedType(resp.qtype, resp.out.found)) =>
        /\ resp.out.kind = "written"
        /\ IsNegative(resp.out.msg)
        /\ resp.out.code = "NOERROR"

\* The last call's name is a configured zone (the zone apex)
IsApexQuery == \E i \in 1..Len(gw.Zones) : ToLower(resp.qname) = gw.Zones[i]

\* C13: for an A, AAAA or TXT query on a name for which no key set gives data
\* in any table, with fall-through not enabled for the name, the response has
\* an empty answer section and exactly the zone SOA in the authority section;
\* the code is name error if and only if the name is not the zone apex.
C13_NoDataNegativeResponse ==
    (/\ PipelineRan
     /\ resp.qtype \in {"A", "AAAA", "TXT"}
     /\ PairsWithData = {}
     /\ ~FallEnabledFor(resp.qname)) =>
        /\ resp.out.kind = "written"
        /\ IsNegative(resp.out.msg)
        /\ resp.out.msg.Extra = <<>>
        /\ (resp.out.code = "NXDOMAIN") <=> ~IsApexQuery
        /\ resp.out.code \in {"NXDOMAIN", "NOERROR"}
        /\ resp.out.msg.Rcode = resp.out.code

\* C13 witness: an A query for the zone apex finds no data (fall-through is
\* enabled only for a zone below) and is answered with success and the SOA.
C13_Witness ==
    /\ PipelineRan
    /\ resp.qtype = "A"
    /\ resp.qname = Z
    /\ gw.Fall = <<Name_wz>>
    /\ PairsWithData = {}
    /\ resp.out.code = "NOERROR"
    /\ IsNegative(resp.out.msg)

\* C14: a CNAME query for a name that is not the zone apex and for which no
\* key set gives data in any table, with fall-through not enabled for the
\* name, is answered with name error, an empty answer section and the SOA in
\* the authority section, whatever the spelling of the name.
C14_CnameNoDataIsNameError ==
    (/\ PipelineRan
     /\ resp.qtype = "CNAME"
     /\ ~IsApexQuery
     /\ PairsWithData = {}
     /\ ~FallEnabledFor(resp.qname)) =>
        /\ resp.out.kind = "written"
        /\ IsNegative(resp.out.msg)
        /\ resp.out.code = "NXDOMAIN"

\* The message answers with exactly the synthesized SOA of the zone of the
\* last call: owner the zone, primary <apex>.<zone>, mailbox
\* <hostmaster>.<apex>.<zone>, and nothing in the other sections
AnswersSOA(m) ==
    LET zone == validateQueryZone(resp.qname)
    IN  /\ Len(m.Answer) = 1
        /\ m.Answer[1].type = "SOA"
        /\ m.Answer[1].name = zone
        /\ m.Answer[1].ttl = gw.ttlSOA
        /\ m.Answer[1].data.Ns = gw.apex \o <<".">> \o zone
        /\ m.Answer[1].data.Mbox = gw.hostmaster \o <<".">> \o gw.apex \o <<".">> \o zone
        /\ m.Answer[1].data.Serial = lastSerial
        /\ m.Ns = <<>>
        /\ m.Extra = <<>>

\* C15 as stated: for every configuration and synced snapshot, a SOA query
\* whose name lies in a configured zone and outside the apex-label subtree
\* gets a response whose answer section is exactly the synthesized SOA of
\* the zone, with code success.
C15_SoaAlwaysAnswered ==
    (PipelineRan /\ resp.qtype = "SOA") =>
        /\ resp.out.kind = "written"
        /\ AnswersSOA(resp.out.msg)
        /\ resp.out.code = "NOERROR"

\* C15 amended: such a SOA query is answered with exactly the synthesized SOA
\* and code success unless the pipeline finds no data for the name and
\* fall-through is enabled for it; in that case the query is delegated to
\* the next handler and no response is written.
C15_SoaAnsweredUnlessDelegated ==
    (PipelineRan /\ resp.qtype = "SOA") =>
        IF PairsWithData = {} /\ FallEnabledFor(resp.qname)
        THEN resp.out.kind = "next" /\ resp.out.msg = NewMsg
        ELSE /\ resp.out.kind = "written"
             /\ AnswersSOA(resp.out.msg)
             /\ resp.out.code = "NOERROR"

\* C15 witness: a SOA query for a name that is not the apex and has no data,
\* under a configuration with fall-through for another zone, is answered
\* with the SOA of the zone.
C15_Witness ==
    /\ PipelineRan
    /\ resp.qtype = "SOA"
    /\ resp.qname = Name_nonexistent
    /\ gw.Fall = <<Name_wz>>
    /\ PairsWithData = {}
    /\ resp.out.kind = "written"
    /\ AnswersSOA(resp.out.msg)

\* The last call reached the pipeline with a name that has upper-case letters
MixedCaseQuery == PipelineRan /\ resp.qname # ToLower(resp.qname)

\* What the pipeline finds for the lowercase spelling of the last call's name
FoundForLowercase ==
    LET n == ToLower(resp.qname)
    IN  getMatchingAddressesWithCNAME(getQueryIndexKeySets(n, validateQueryZone(n)))

\* The records of the answer section of the types of hosted names
HostedAnswers(m) == {i \in 1..Len(m.Answer) : m.Answer[i].type \in DataTypes}

-----------------------------------------------------------------------------
(* CNAME records: snapshots with chains, cycles and targets outside the zone *)

\* CNAME targets outside the zone "z."
Name_awy == <<"a", ".", "w", ".", "y", ".">>          \* a.w.y.
Name_ayz == <<"a", ".", "y", "z", ".">>               \* a.yz., in the zone yz.
Root == <<".">>                                       \* the root, shorter than the zone

\* The entries of these snapshots: a.w.z and b.w.z are aliases of each other
\* (the second written in mixed case with a closing dot), b.w.z may have
\* addresses of either family in tables that come first, and both may point
\* outside the zone (a.w is the key of a Service a in namespace w).
CnameEntries ==
    { Entry("DNSEndpoint", Key_awz, <<>>, <<>>, <<Key_bwz>>),
      Entry("DNSEndpoint", Key_bwz, <<>>, <<>>, <<Name_AwZ>>),
      Entry("Ingress", Key_bwz, <<<<4, 1>>>>, <<>>, <<>>),
      Entry("Service", Key_bwz, <<<<6, 2>>>>, <<>>, <<>>),
      Entry("Service", Key_aw, <<<<4, 6>>, <<6, 6>>>>, <<>>, <<>>),
      Entry("DNSEndpoint", Key_bwz, <<>>, <<>>, <<Name_awy>>),
      Entry("DNSEndpoint", Key_awz, <<>>, <<>>, <<Name_ayz>>),
      Entry("DNSEndpoint", Key_awz, <<>>, <<>>, <<Root>>) }

\* The number of entries of a snapshot
MaxCnameEntries == 3

CnameSnapshots ==
    {TablesOf(es) : es \in {x \in SUBSET CnameEntries : Cardinality(x) <= MaxCnameEntries}}

\* gw.CNAMEMaxDepth: the default, and the low values a caller may set
CnameDepths == {1, 2, defaultCNAMEMaxDepth}

CnameConfigs ==
    {[Configure(<<"HTTPRoute", "Ingress", "Service", "DNSEndpoint">>, <<>>)
         EXCEPT !.CNAMEMaxDepth = d] : d \in CnameDepths}

InitCname ==
    /\ gw \in CnameConfigs
    /\ hasSynced = FALSE
    /\ tables \in CnameSnapshots
    /\ stores = <<>>
    /\ lastSerial = Uint32(ClockStart)
    /\ dirty = TRUE
    /\ hist = NoHist
    /\ resp = NoResp
    /\ xfr = NoXfr

SpecCname == InitCname /\ [][Next]_vars

\* The last call was an address query whose lookup returned CNAME targets
CnameRedirected ==
    /\ PipelineRan
    /\ resp.qtype \in {"A", "AAAA"}
    /\ resp.out.found.cnames # <<>>

\* The chain resolution of the last call, as processCNAMEWithResolution
\* starts it
Resolution ==
    resolveCNAMEChain(resp.out.found.cnames[1], validateQueryZone(resp.qname),
                      gw.CNAMEMaxDepth)

\* The addresses of the family the last call asks for
WantedFamily(addrs) == IF resp.qtype = "A" THEN ipv4Only(addrs) ELSE ipv6Only(addrs)

\* C16: for an A (AAAA) query on a name whose lookup returns CNAME targets,
\* the answer section starts with exactly one CNAME record, owned by the
\* query name, whose target is the first target returned, followed by A
\* (AAAA) records for the addresses chain resolution reaches; when chain
\* resolution fails or reaches no address of the family asked for, the
\* answer is that CNAME alone. In every case the response code is success.
C16_CnameThenResolvedAddresses ==
    CnameRedirected =>
        LET m == resp.out.msg
            reached == IF Resolution.err = "none" THEN WantedFamily(Resolution.addrs)
                       ELSE <<>>
        IN  /\ resp.out.kind = "written"
            /\ resp.out.code = "NOERROR"
            /\ m.Rcode = "NOERROR"
            /\ Len(m.Answer) = 1 + Len(Dedupe(reached))
            /\ m.Answer[1].type = "CNAME"
            /\ m.Answer[1].name = ToLower(resp.qname)
            /\ m.Answer[1].data = Fqdn(resp.out.found.cnames[1])
            /\ \A i \in 2..Len(m.Answer) :
                  /\ m.Answer[i].type = resp.qtype
                  /\ m.Answer[i].data = Dedupe(reached)[i - 1]
            /\ m.Ns = <<>>

\* C27: ServeDNS completes without a run-time panic for every query and
\* snapshot; the slice bound len(qname)-len(zone) of stripDomain is never
\* negative, also for the CNAME targets reached during chain resolution.
C27_ServeDnsNeverPanics ==
    resp.called =>
        /\ resp.out.kind # "panic"
        /\ (resp.synced /\ CnameRedirected) => ~Resolution.panic

\* One probe of the lookup pipeline with a canonical name, as the resolver
\* makes it
Probe(name) ==
    getMatchingAddressesWithCNAME(
        getQueryIndexKeySets(name, canonicalizeDNSName(validateQueryZone(resp.qname))))

\* The probe gave no address but a CNAME target: the resolver goes on
Continues(name) == Probe(name).addrs = <<>> /\ Probe(name).cnames # <<>>

\* The k-th target of the chain of the last call, given the names probed
ChainTarget(probed, k) ==
    canonicalizeDNSName(IF k = 1 THEN resp.out.found.cnames[1]
                        ELSE Probe(probed[k - 1]).cnames[1])

\* C17: resolveCNAMEChain terminates for every snapshot, cyclic CNAME graphs
\* included. It probes the pipeline at most maxDepth times, with the
\* canonical names of the chain in order and never with the same canonical
\* name twice; it fails as soon as the next target is already visited or no
\* depth remains; and it leaves the visited map empty.
C17_ResolverTerminatesWithoutRepeats ==
    CnameRedirected =>
        LET r == Resolution
            p == r.probed
            n == Len(p)
            goesOn == n = 0 \/ Continues(p[n])
        IN  /\ n <= gw.CNAMEMaxDepth
            /\ \A i, j \in 1..n : i < j => p[i] # p[j]
            /\ \A k \in 1..n : p[k] = ChainTarget(p, k)
            /\ \A k \in 1..(n - 1) : Continues(p[k])
            /\ r.visited = {}
            /\ r.err \in {"none", "depth", "loop", "deadend"}
            /\ r.err \in {"depth", "loop"} <=> (goesOn /\ ~r.panic)
            /\ r.err = "depth" <=> (goesOn /\ n = gw.CNAMEMaxDepth)
            /\ r.err = "loop" =>
                  \E k \in 1..n : p[k] = ChainTarget(p, n + 1)
            /\ r.err # "none" => r.addrs = <<>>

\* C17 witness: two names that are aliases of each other; the resolution
\* probes each once and fails with a loop on the way back to the first.
C17_Witness ==
    /\ CnameRedirected
    /\ gw.CNAMEMaxDepth = defaultCNAMEMaxDepth
    /\ Resolution.err = "loop"
    /\ Len(Resolution.probed) = 2
    /\ Resolution.visited = {}
    /\ resp.out.kind = "written"

\* The name lies in no label-wise sub-domain of the zone of the last call
OutsideZone(name) == ~IsSubDomain(validateQueryZone(resp.qname), name)

\* The targets the chain resolution of the last call reached: the names it
\* probed and, when the probe itself failed, the name it was probing
ReachedTargets ==
    LET p == Resolution.probed
        n == Len(p)
    IN  {p[k] : k \in 1..n}
            \cup (IF Resolution.panic THEN {ChainTarget(p, n + 1)} ELSE {})

\* C18: when chain resolution reaches a target that is not a name inside the
\* zone, resolveCNAMEChain returns no addresses and no error, and the answer
\* is the CNAME only: no address of the snapshot is attached to a target
\* outside the zone, and such a target is not reported as a dead end.
C18_ExternalTargetGivesCnameOnly ==
    (/\ CnameRedirected
     /\ \E t \in ReachedTargets : OutsideZone(t)) =>
        /\ Resolution.addrs = <<>>
        /\ Resolution.err = "none"
        /\ resp.out.kind = "written"
        /\ Len(resp.out.msg.Answer) = 1
        /\ resp.out.msg.Answer[1].type = "CNAME"

-----------------------------------------------------------------------------
(* Apex labels: configurations with a secondary label, a one-label apex
   label and a low TTL that differs from the SOA TTL *)

\* The "apex", "secondary" and "ttl" lines considered
ApexLabels == {Key_dk, Key_k}
SecondaryLabels == {<<>>, Key_aw}
ttlLowValues == {ttlDefault, 30}

ApexConfigs ==
    {[Configure(DefaultResources, <<>>)
         EXCEPT !.apex = a, !.secondNS = s, !.ttlLow = t] :
        a \in ApexLabels, s \in SecondaryLabels, t \in ttlLowValues}

\* The entries of these snapshots: the Services behind the labels, and
\* records of hosted names
ApexEntries ==
    { Entry("Service", Key_dk, <<<<4, 8>>>>, <<>>, <<>>),
      Entry("Service", Key_dk, <<<<6, 8>>>>, <<>>, <<>>),
      Entry("Service", Key_k, <<<<4, 9>>>>, <<>>, <<>>),
      Entry("Service", Key_aw, <<<<4, 6>>, <<6, 6>>>>, <<>>, <<>>),
      Entry("Ingress", Key_bwz, <<<<4, 3>>>>, <<>>, <<>>) }

\* The number of entries of a snapshot
MaxApexEntries == 3

ApexSnapshots ==
    {TablesOf(es) : es \in {x \in SUBSET ApexEntries : Cardinality(x) <= MaxApexEntries}}

InitApex ==
    /\ gw \in ApexConfigs
    /\ hasSynced = FALSE
    /\ tables \in ApexSnapshots
    /\ stores = <<>>
    /\ lastSerial = Uint32(ClockStart)
    /\ dirty = TRUE
    /\ hist = NoHist
    /\ resp = NoResp
    /\ xfr = NoXfr

SpecApex == InitApex /\ [][Next]_vars

\* The configured labels: the apex label and, when set, the secondary label
ConfiguredLabels == {gw.apex} \cup (IF gw.secondNS = <<>> THEN {} ELSE {gw.secondNS})

\* The last call was a synced query for <label>.<zone>, label a configured one
LabelQuery ==
    /\ resp.called
    /\ resp.synced
    /\ \E l \in ConfiguredLabels, i \in 1..Len(gw.Zones) :
          ToLower(resp.qname) = l \o <<".">> \o gw.Zones[i]

\* The records of the external-address callback of the type of the last call
RECURSIVE OfQueriedType(_)
OfQueriedType(rrs) ==
    IF rrs = <<>> THEN <<>>
    ELSE (IF Head(rrs).type = resp.qtype THEN <<Head(rrs)>> ELSE <<>>)
             \o OfQueriedType(Tail(rrs))

CallbackRecords ==
    OfQueriedType(ExternalAddrFunc(
        Request(resp.qname, resp.qtype, validateQueryZone(resp.qname))))

\* C19: a query for <label>.<zone>, for the configured apex label and for the
\* configured secondary label, whatever the number of DNS labels in it, is
\* answered by the sub-apex handler: for type A or AAAA with the records of
\* that type the callback returns, owned by the query name; for any other
\* type, or when the callback has no record of the type, with an empty
\* answer, the SOA in the authority section and code success.
C19_LabelsServedBySubApex ==
    LabelQuery =>
        LET m == resp.out.msg
            rrs == IF resp.qtype \in {"A", "AAAA"} THEN CallbackRecords ELSE <<>>
        IN  /\ resp.out.kind = "written"
            /\ resp.out.apex = "subapex"
            /\ resp.out.code = "NOERROR"
            /\ m.Rcode = "NOERROR"
            /\ Len(m.Answer) = Len(rrs)
            /\ \A i \in 1..Len(rrs) :
                  /\ m.Answer[i].name = resp.qname
                  /\ m.Answer[i].type = rrs[i].type
                  /\ m.Answer[i].data = rrs[i].data
            /\ rrs = <<>> => IsNegative(m)

\* Every A record of the list carries an IPv4 address, every AAAA record an
\* IPv6 address
FamilyByType(rrs) ==
    \A i \in 1..Len(rrs) :
        /\ rrs[i].type = "A" => Is4(rrs[i].data)
        /\ rrs[i].type = "AAAA" => Is6(rrs[i].data)

\* C30: every A record of a response carries an IPv4 address and every AAAA
\* record an IPv6 address, the nameserver address records that SelfAddress
\* builds (NS-query extras, sub-apex answers) included, also when the apex
\* or secondary label resolves to IPv6 addresses.
C30_AddressFamilyMatchesType ==
    (resp.called /\ resp.out.kind = "written") =>
        /\ FamilyByType(resp.out.msg.Answer)
        /\ FamilyByType(resp.out.msg.Extra)

-----------------------------------------------------------------------------
(* The SOA serial cell on its own: soa() calls and dirtiness signals *)

\* The clock readings of the soa() calls: ordinary seconds, a reading before
\* the start (the clock moved backwards), the last second that fits in 32
\* bits, and seconds that do not fit in 32 bits
SerialClocks ==
    { <<0, 0, 999>>, <<0, 0, 1000>>, <<0, 0, 1002>>,
      <<0, Limb - 1, Limb - 1>>, <<1, 0, 0>>, <<1, 0, 7>> }

\* Number of soa() calls followed
MaxSoaCalls == 4

\* What is remembered of the calls: the serials returned so far, the cell
\* before the last call, whether markDirty ran since the call before the last
\* one (markedBefore) and since the last one (marked)
SerialHist(rets, before, markedBefore, marked) ==
    [n |-> Len(rets), rets |-> rets, before |-> before,
     markedBefore |-> markedBefore, marked |-> marked]

InitSerial ==
    /\ gw = Configure(DefaultResources, <<>>)
    /\ hasSynced = TRUE
    /\ tables = TablesOf({})
    /\ stores = <<>>
    /\ lastSerial = Uint32(ClockStart)
    /\ dirty = TRUE
    /\ hist = SerialHist(<<>>, Uint32(ClockStart), FALSE, FALSE)
    /\ resp = NoResp
    /\ xfr = NoXfr

\* gw.soa(state): reads the serial through calculateSerial
Soa(now) ==
    /\ hist.n < MaxSoaCalls
    /\ LET cell == calculateSerial(now, lastSerial, dirty)
       IN  /\ lastSerial' = cell.lastSerial
           /\ dirty' = cell.dirty
           /\ hist' = SerialHist(Append(hist.rets, cell.serial), lastSerial,
                                 hist.marked, FALSE)
    /\ UNCHANGED <<gw, hasSynced, tables, stores, resp, xfr>>

\* gw.markDirty(): the indexer signals that the snapshot changed
markDirty ==
    /\ dirty' = TRUE
    /\ hist' = [hist EXCEPT !.marked = TRUE]
    /\ UNCHANGED <<gw, hasSynced, tables, stores, lastSerial, resp, xfr>>

NextSerial ==
    \/ \E now \in SerialClocks : Soa(now)
    \/ markDirty

SpecSerial == InitSerial /\ [][NextSerial]_vars

\* The serial returned by the last soa() call, and by the calls before it
LastRet == hist.rets[hist.n]
EarlierRets == {hist.rets[i] : i \in 1..(hist.n - 1)}

\* C4: two successive soa() calls with no markDirty() between them return
\* equal serials and the second leaves lastSerial unchanged; the first soa()
\* call after a markDirty() returns a serial strictly greater than every
\* serial returned before, and clears the dirty flag.
C4_EqualUnlessMarkedThenGreater ==
    (hist.n >= 2 /\ ~hist.marked) =>
        IF hist.markedBefore
        THEN /\ \A r \in EarlierRets : U32Less(r, LastRet)
             /\ ~dirty
        ELSE /\ LastRet = hist.rets[hist.n - 1]
             /\ lastSerial = hist.before

\* C5: the serials returned by successive soa() calls are non-decreasing as
\* 32-bit unsigned values, for every clock reading and every reachable
\* lastSerial.
C5_SerialsNonDecreasing ==
    \A i, j \in 1..hist.n : i <= j => U32Leq(hist.rets[i], hist.rets[j])

-----------------------------------------------------------------------------
(* Zone transfer: the objects of the informer stores and what the transfer
   collects from them *)

Name_wild == <<"*", ".", "w", ".", "z", ".">>          \* *.w.z.
Name_y == <<"y", ".">>                                 \* y., no configured zone

\* Objects of the stores.  hosts are the host strings as stored; addrs the
\* load-balancer or gateway addresses of the object; a Service has a name, a
\* namespace and the hostnames of its annotations; a DNSEndpoint has
\* endpoints with a DNS name, a record type and targets.
IngressObj(hosts, addrs) == [kind |-> "Ingress", hosts |-> hosts, addrs |-> addrs]
ServiceObj(name, namespace, annotations, addrs) ==
    [kind |-> "Service", name |-> name, namespace |-> namespace,
     annotations |-> annotations, addrs |-> addrs]
HTTPRouteObj(hosts, addrs) == [kind |-> "HTTPRoute", hosts |-> hosts, addrs |-> addrs]
Endpoint(dnsName, recordType, targets) ==
    [DNSName |-> dnsName, RecordType |-> recordType, Targets |-> targets]
DNSEndpointObj(endpoints) == [kind |-> "DNSEndpoint", endpoints |-> endpoints]

Objects ==
    { IngressObj(<<Key_awz>>, <<<<4, 3>>>>),                \* host a.w.z
      IngressObj(<<Name_bwz>>, <<<<4, 4>>, <<6, 4>>>>),     \* host b.w.z.
      ServiceObj(<<"a">>, <<"w">>, <<>>, <<<<4, 6>>, <<6, 6>>>>),
      ServiceObj(<<"b">>, <<"w">>, <<Name_wild>>, <<<<4, 7>>>>),
      ServiceObj(<<"d">>, <<"k">>, <<>>, <<<<4, 8>>>>),     \* the gateway's own service
      HTTPRouteObj(<<Name_bwz, Name_awz>>, <<<<4, 1>>>>),
      DNSEndpointObj(<<Endpoint(Name_awz, "TXT", <<<<"t">>>>),
                       Endpoint(Key_bwz, "CNAME", <<Name_awz>>)>>) }

\* addRecords: append to the group of a key; nothing for an empty list
addRecords(records, key, rrs) ==
    IF rrs = <<>> THEN records
    ELSE IF key \in DOMAIN records
    THEN [records EXCEPT ![key] = @ \o rrs]
    ELSE records @@ (key :> rrs)

\* The zone test of the collectors: strings.HasSuffix(hostname, zone), on the
\* host string as stored
InZone(hostname, zone) == HasSuffix(hostname, zone)

\* The A and AAAA records of one host name of an object
addHostRecords(records, zone, hostname, addrs) ==
    IF ~InZone(hostname, zone) THEN records
    ELSE LET fqdn == Fqdn(hostname)
         IN  addRecords(addRecords(records, fqdn, A(fqdn, ipv4Only(addrs))),
                        fqdn, AAAA(fqdn, ipv6Only(addrs)))

RECURSIVE addHostsRecords(_, _, _, _, _)
addHostsRecords(records, zone, hostnames, addrs, lower) ==
    IF hostnames = <<>> THEN records
    ELSE LET h == IF lower THEN ToLower(Head(hostnames)) ELSE Head(hostnames)
         IN  addHostsRecords(IF h = <<>> THEN records
                             ELSE addHostRecords(records, zone, h, addrs),
                             zone, Tail(hostnames), addrs, lower)

\* getServiceHostnames: the annotation's hostnames, or name.namespace.zone
getServiceHostnames(service, zone) ==
    IF service.annotations # <<>> THEN service.annotations
    ELSE <<service.name \o <<".">> \o service.namespace \o <<".">> \o zone>>

\* The records of the endpoints of a DNSEndpoint object
RECURSIVE addEndpointRecords(_, _, _)
addEndpointRecords(records, zone, endpoints) ==
    IF endpoints = <<>> THEN records
    ELSE LET endpoint == Head(endpoints)
             hostname == ToLower(endpoint.DNSName)
             fqdn == Fqdn(hostname)
             next ==
                 IF ~InZone(hostname, zone) THEN records
                 ELSE CASE endpoint.RecordType = "A" ->
                               addRecords(records, fqdn, A(fqdn, ipv4Only(endpoint.Targets)))
                        [] endpoint.RecordType = "AAAA" ->
                               addRecords(records, fqdn, AAAA(fqdn, ipv6Only(endpoint.Targets)))
                        [] endpoint.RecordType = "TXT" ->
                               addRecords(records, fqdn, TXT(fqdn, endpoint.Targets))
                        [] OTHER -> records
         IN  addEndpointRecords(next, zone, Tail(endpoints))

\* transferIngresses, transferServices, transferHTTPRoutes and
\* transferDNSEndpoints: the objects of the resource's kind, in store order
RECURSIVE transferKind(_, _, _, _)
transferKind(records, zone, kind, items) ==
    IF items = <<>> THEN records
    ELSE LET item == Head(items)
             next ==
                 IF item.kind # kind THEN records
                 ELSE IF kind = "DNSEndpoint"
                 THEN addEndpointRecords(records, zone, item.endpoints)
                 ELSE IF item.addrs = <<>> THEN records
                 ELSE IF kind = "Service"
                 THEN addHostsRecords(records, zone, getServiceHostnames(item, zone),
                                      item.addrs, FALSE)
                 ELSE addHostsRecords(records, zone, item.hosts, item.addrs, TRUE)
         IN  transferKind(next, zone, kind, Tail(items))

\* The loop of transferResources over gw.Resources
RECURSIVE collectRecords(_, _, _)
collectRecords(records, zone, i) ==
    IF i > Len(gw.Resources) THEN records
    ELSE collectRecords(transferKind(records, zone, gw.Resources[i], stores), zone, i + 1)

\* sort.Strings on the keys of the record map
RECURSIVE SortStrings(_)
SortStrings(keys) ==
    IF keys = {} THEN <<>>
    ELSE LET least == CHOOSE k \in keys : \A o \in keys : o = k \/ StrLess(k, o)
         IN  <<least>> \o SortStrings(keys \ {least})

\* A variant that leaves the keys unsorted, in an order a map iteration may
\* give (here the descending one)
RECURSIVE UnsortedKeys(_)
UnsortedKeys(keys) ==
    IF keys = {} THEN <<>>
    ELSE LET greatest == CHOOSE k \in keys : \A o \in keys : o = k \/ StrLess(o, k)
         IN  <<greatest>> \o UnsortedKeys(keys \ {greatest})

\* The order in which transferResources sends the groups: sort.Strings(keys)
sortKeys(keys) == SortStrings(keys)

\* A variant of transferResources without the test of HasSynced
transferResourcesUnsynced(zone) ==
    LET records == collectRecords(<<>>, zone, 1)
        keys == sortKeys(DOMAIN records)
    IN  [i \in 1..Len(keys) |-> records[keys[i]]]

\* transferResources: the groups it sends, in order; nothing while the
\* indexer has not synced
transferResources(zone) ==
    IF ~hasSynced THEN <<>>
    ELSE LET records == collectRecords(<<>>, zone, 1)
             keys == sortKeys(DOMAIN records)
         IN  [i \in 1..Len(keys) |-> records[keys[i]]]

\* What the hostname index functions and the lookup functions of the
\* indexer layer make of an object: the keys it is indexed under (the host
\* strings as stored, name.namespace for a Service without annotation) and
\* the data a lookup of such a key returns
SeqRange(q) == {q[i] : i \in 1..Len(q)}

IndexEntries(o) ==
    CASE o.kind \in {"Ingress", "HTTPRoute"} ->
             {Entry(o.kind, ToLower(h), o.addrs, <<>>, <<>>) : h \in SeqRange(o.hosts)}
      [] o.kind = "Service" ->
             {Entry("Service", ToLower(h), o.addrs, <<>>, <<>>) :
                 h \in (IF o.annotations # <<>> THEN SeqRange(o.annotations)
                        ELSE {o.name \o <<".">> \o o.namespace})}
      [] o.kind = "DNSEndpoint" ->
             {Entry("DNSEndpoint", ToLower(e.DNSName),
                    IF e.RecordType \in {"A", "AAAA"} THEN e.Targets ELSE <<>>,
                    IF e.RecordType = "TXT" THEN e.Targets ELSE <<>>,
                    IF e.RecordType = "CNAME" THEN e.Targets ELSE <<>>) :
                 e \in SeqRange(o.endpoints)}

IndexTables(items) == TablesOf(UNION {IndexEntries(o) : o \in SeqRange(items)})

\* The number of objects the stores come to hold
MaxObjects == 2

\* The configurations of the transfer runs
XfrConfigs ==
    { Configure(DefaultResources, <<>>),
      Configure(<<"HTTPRoute", "Ingress", "Service", "DNSEndpoint">>, <<>>) }
        \cup {[Configure(DefaultResources, <<>>) EXCEPT !.ttlLow = t] :
                 t \in ttlLowValues \ {ttlDefault}}

\* The clock at startup and at the transfer requests
StartClocks == {ClockStart, <<0, Limb - 1, Limb - 1>>}
XfrClock == {<<0, 0, 1001>>}

\* The zone names and the serials a transfer request carries
XfrZones == {Z, Name_wz, Name_y}
CallerSerials(now) == {U32Zero, lastSerial, Uint32(now), U32Inc(lastSerial)}

InitXfr ==
    /\ gw \in XfrConfigs
    /\ hasSynced = FALSE
    /\ stores = <<>>
    /\ tables = IndexTables(<<>>)
    /\ lastSerial \in {Uint32(c) : c \in StartClocks}
    /\ dirty = TRUE
    /\ hist = NoHist
    /\ resp = NoResp
    /\ xfr = NoXfr

\* An informer adds an object to its store; the indexer signals the change
Update(o) ==
    /\ Len(stores) < MaxObjects
    /\ o \notin SeqRange(stores)
    /\ stores' = Append(stores, o)
    /\ tables' = IndexTables(stores')
    /\ dirty' = TRUE
    /\ xfr' = IF xfr.started THEN [xfr EXCEPT !.stale = TRUE, !.changed = TRUE] ELSE xfr
    /\ UNCHANGED <<gw, hasSynced, lastSerial, hist, resp>>

\* The request.Request a transfer builds: only the zone is set
XfrState(zone) == Request(<<".">>, "NONE", zone)

\* A group as it travels on the channel, with the place that sent it. Of a
\* transfer, startSynced says whether the indexer had synced at the request,
\* atSoa how many objects the stores held when the SOA was synthesized,
\* stale says that the stores changed since the producer collected
\* the records, changed that they changed since the request, collected that
\* transferResources has run and synced whether the indexer had synced then.
Group(section, rrs) == [section |-> section, rrs |-> rrs]

\* A variant of the fast-path test without the test for serial 0
ixfrFastPathOnEqual(serial, soaSerial) == soaSerial = serial

\* The IXFR fast-path test: serial != 0 && soa.Serial == serial
ixfrFastPath(serial, soaSerial) == serial # U32Zero /\ soaSerial = serial

\* Transfer(zone, serial)
Transfer(zone, serial, now) ==
    /\ ~xfr.started
    /\ LET match == Matches(gw.Zones, zone)
           cell == calculateSerial(now, lastSerial, dirty)
           soaRR == soa(XfrState(zone), cell.serial)
           base == [started |-> TRUE, zone |-> zone, serial |-> serial,
                    stale |-> FALSE, changed |-> FALSE, collected |-> FALSE,
                    synced |-> FALSE, startSynced |-> hasSynced,
                    atSoa |-> Len(stores)]
       IN  IF match = <<>>
           THEN /\ xfr' = base @@ [err |-> "notauth", ch |-> "nil", soa |-> <<>>,
                                   sent |-> <<>>, closed |-> FALSE,
                                   producer |-> "none", pc |-> "none",
                                   panicked |-> FALSE, closes |-> 0]
                /\ UNCHANGED <<lastSerial, dirty>>
           ELSE /\ lastSerial' = cell.lastSerial
                /\ dirty' = cell.dirty
                /\ xfr' = IF ixfrFastPath(serial, cell.serial)
                          THEN base @@ [err |-> "none", ch |-> "buffered", soa |-> soaRR,
                                        sent |-> <<Group("soa", <<soaRR>>)>>,
                                        closed |-> TRUE,
                                        producer |-> "none", pc |-> "none",
                                        panicked |-> FALSE, closes |-> 1]
                          ELSE base @@ [err |-> "none", ch |-> "unbuffered", soa |-> soaRR,
                                        sent |-> <<>>, closed |-> FALSE,
                                        producer |-> "running", pc |-> "soa",
                                        panicked |-> FALSE, closes |-> 0]
    /\ UNCHANGED <<gw, hasSynced, tables, stores, hist, resp>>

\* The steps of the producer goroutine
Producing(pc) == xfr.started /\ xfr.producer = "running" /\ xfr.pc = pc

SendSOA ==
    /\ Producing("soa")
    /\ xfr' = [xfr EXCEPT !.sent = Append(@, Group("soa", <<xfr.soa>>)), !.pc = "ns"]
    /\ UNCHANGED <<gw, hasSynced, tables, stores, lastSerial, dirty, hist, resp>>

SendNS ==
    /\ Producing("ns")
    /\ LET nsRecords == nameservers(XfrState(xfr.zone))
       IN  xfr' = [xfr EXCEPT
                     !.sent = @ \o [i \in 1..Len(nsRecords) |-> Group("ns", <<nsRecords[i]>>)],
                     !.pc = "addrs"]
    /\ UNCHANGED <<gw, hasSynced, tables, stores, lastSerial, dirty, hist, resp>>

SendNSAddrs ==
    /\ Producing("addrs")
    /\ LET nsAddrs == ExternalAddrFunc(XfrState(xfr.zone))
       IN  xfr' = [xfr EXCEPT
                     !.sent = IF nsAddrs # <<>> THEN Append(@, Group("addrs", nsAddrs)) ELSE @,
                     !.pc = "resources"]
    /\ UNCHANGED <<gw, hasSynced, tables, stores, lastSerial, dirty, hist, resp>>

SendResources ==
    /\ Producing("resources")
    /\ LET groups == transferResources(xfr.zone)
       IN  xfr' = [xfr EXCEPT
                     !.sent = @ \o [i \in 1..Len(groups) |-> Group("name", groups[i])],
                     !.stale = FALSE, !.collected = TRUE, !.synced = hasSynced,
                     !.pc = "final"]
    /\ UNCHANGED <<gw, hasSynced, tables, stores, lastSerial, dirty, hist, resp>>

SendFinalSOA ==
    /\ Producing("final")
    /\ xfr' = [xfr EXCEPT !.sent = Append(@, Group("final", <<xfr.soa>>)), !.pc = "close"]
    /\ UNCHANGED <<gw, hasSynced, tables, stores, lastSerial, dirty, hist, resp>>

\* A panic in the producer: raised by the callback, by a collector while it
\* iterates a store, or at a send. The goroutine unwinds to its deferred
\* function; nothing after the point of the panic runs.
ProducerPanic ==
    /\ xfr.started
    /\ xfr.producer = "running"
    /\ xfr.pc \in {"soa", "ns", "addrs", "resources", "final"}
    /\ xfr' = [xfr EXCEPT !.panicked = TRUE, !.pc = "close"]
    /\ UNCHANGED <<gw, hasSynced, tables, stores, lastSerial, dirty, hist, resp>>

\* A variant of the deferred function that closes the channel only when the
\* producer returned normally
CloseChannelUnlessPanicked ==
    /\ Producing("close")
    /\ xfr' = [xfr EXCEPT !.closed = ~xfr.panicked,
                          !.closes = IF xfr.panicked THEN @ ELSE @ + 1,
                          !.producer = "done", !.pc = "none"]
    /\ UNCHANGED <<gw, hasSynced, tables, stores, lastSerial, dirty, hist, resp>>

\* The deferred function of the producer: recover(), then close(ch)
CloseChannel ==
    /\ Producing("close")
    /\ xfr' = [xfr EXCEPT !.closed = TRUE, !.closes = @ + 1,
                          !.producer = "done", !.pc = "none"]
    /\ UNCHANGED <<gw, hasSynced, tables, stores, lastSerial, dirty, hist, resp>>

\* The caller has read the channel to its end (or got the error)
Drain ==
    /\ xfr.started
    /\ xfr.producer \in {"none", "done"}
    /\ xfr' = NoXfr
    /\ UNCHANGED <<gw, hasSynced, tables, stores, lastSerial, dirty, hist, resp>>

NextXfr ==
    \/ Sync
    \/ \E o \in Objects : Update(o)
    \/ \E zone \in XfrZones, now \in XfrClock :
          \E serial \in CallerSerials(now) : Transfer(zone, serial, now)
    \/ SendSOA
    \/ SendNS
    \/ SendNSAddrs
    \/ SendResources
    \/ SendFinalSOA
    \/ ProducerPanic
    \/ CloseChannel
    \/ Drain

SpecXfr == InitXfr /\ [][NextXfr]_vars

-----------------------------------------------------------------------------
(* Properties of the zone transfer *)

\* The groups of a section of the stream, in the order sent
RECURSIVE SelectSection(_, _)
SelectSection(groups, section) ==
    IF groups = <<>> THEN <<>>
    ELSE (IF Head(groups).section = section THEN <<Head(groups).rrs>> ELSE <<>>)
         \o SelectSection(Tail(groups), section)

\* The place of a section in the stream
SectionRank(section) ==
    CASE section = "soa" -> 1 [] section = "ns" -> 2 [] section = "addrs" -> 3
      [] section = "name" -> 4 [] section = "final" -> 5

\* All records of a group have the owner name of its first record
OneOwner(rrs) == rrs # <<>> /\ \A i \in 1..Len(rrs) : rrs[i].name = rrs[1].name

\* A full transfer has run to completion: its producer returned normally
FullTransferDone ==
    xfr.started /\ xfr.err = "none" /\ xfr.producer = "done" /\ ~xfr.panicked

\* C6: a full transfer that runs to completion emits, in this order: the SOA,
\* the apex NS records, the apex address records of the external-address
\* callback (if any), one group per owner name in ascending lexicographic
\* order of owner name with no owner name in two of these groups, and last
\* the same SOA record as the first one.
C6_FullTransferOrder ==
    FullTransferDone =>
        LET sent == xfr.sent
            n == Len(sent)
            nss == SelectSection(sent, "ns")
            glue == SelectSection(sent, "addrs")
            names == SelectSection(sent, "name")
        IN  /\ n >= 3
            /\ \A i, j \in 1..n : i < j => SectionRank(sent[i].section) <= SectionRank(sent[j].section)
            /\ sent[1].section = "soa" /\ sent[2].section # "soa"
            /\ Len(sent[1].rrs) = 1
            /\ sent[1].rrs[1].type = "SOA" /\ sent[1].rrs[1].name = xfr.zone
            /\ sent[n].section = "final" /\ sent[n - 1].section # "final"
            /\ sent[n].rrs = sent[1].rrs
            /\ nss # <<>>
            /\ \A i \in 1..Len(nss) :
                  /\ Len(nss[i]) = 1
                  /\ nss[i][1].type = "NS" /\ nss[i][1].name = xfr.zone
            /\ Len(glue) <= 1
            /\ \A i \in 1..Len(glue) :
                  /\ OneOwner(glue[i])
                  /\ glue[i][1].name = gw.apex \o <<".">> \o xfr.zone
            /\ ~xfr.changed =>
                  (glue = IF ExternalAddrFunc(XfrState(xfr.zone)) = <<>> THEN <<>>
                          ELSE <<ExternalAddrFunc(XfrState(xfr.zone))>>)
            /\ \A i \in 1..Len(names) : OneOwner(names[i])
            /\ \A i \in 1..(Len(names) - 1) : StrLess(names[i][1].name, names[i + 1][1].name)

\* C6 witness: a completed full transfer with an apex address group and at
\* least two per-name groups
C6_Witness ==
    /\ FullTransferDone
    /\ SelectSection(xfr.sent, "addrs") # <<>>
    /\ Len(SelectSection(xfr.sent, "name")) >= 2

\* C7: a transfer request with a non-zero serial equal to the current SOA
\* serial gets a channel that delivers exactly one group, holding exactly the
\* SOA with that serial, and is then closed (no NS, address or per-name
\* records, no producer); a request with serial 0 always gets the full stream.
C7_FastPathIffNonZeroEqual ==
    (xfr.started /\ xfr.err = "none") =>
        /\ (xfr.serial # U32Zero /\ xfr.soa.data.Serial = xfr.serial) =>
              /\ xfr.sent = <<Group("soa", <<xfr.soa>>)>>
              /\ xfr.soa.type = "SOA"
              /\ xfr.closed
              /\ xfr.producer = "none"
        /\ xfr.serial = U32Zero =>
              /\ xfr.producer \in {"running", "done"}
              /\ (xfr.producer = "done" /\ ~xfr.panicked) =>
                    /\ SelectSection(xfr.sent, "ns") # <<>>
                    /\ SelectSection(xfr.sent, "final") = <<<<xfr.soa>>>>
                    /\ xfr.closed

\* C7 witness: a request whose non-zero serial is the current one, answered
\* by the single SOA on a closed channel
C7_Witness ==
    /\ xfr.started /\ xfr.err = "none"
    /\ xfr.serial # U32Zero
    /\ xfr.soa.data.Serial = xfr.serial
    /\ Len(xfr.sent) = 1
    /\ xfr.closed

\* C8: Transfer returns the not-authoritative error and a nil channel, and
\* starts no producer, for every requested zone name that is not equal to one
\* of the configured zones.
C8_NotAuthoritativeUnlessConfigured ==
    (/\ xfr.started
     /\ \A i \in 1..Len(gw.Zones) : ToLower(gw.Zones[i]) # ToLower(xfr.zone)) =>
        /\ xfr.err = "notauth"
        /\ xfr.ch = "nil"
        /\ xfr.producer = "none"

\* The names asked for when a transfer is compared with the answers
CandidateNames == {Name_awz, Name_bwz, Name_wild, Name_dkz}

\* The names of CandidateNames ServeDNS answers with a non-empty answer
\* section for one of the types A, AAAA, TXT, CNAME
AnsweredNames ==
    {name \in CandidateNames :
        \E qtype \in DataTypes : ServeDNS(name, qtype, ClockStart).msg.Answer # <<>>}

\* The owner names of the per-name groups of the transfer
TransferredNames ==
    LET names == SelectSection(xfr.sent, "name")
    IN  {names[i][1].name : i \in 1..Len(names)}

\* C9: for a synced snapshot, the owner names of the per-name groups of a
\* full transfer of the zone are the names of the zone for which ServeDNS
\* returns a non-empty answer section to an A, AAAA, TXT or CNAME query.
C9_TransferNamesAreAnsweredNames ==
    (/\ xfr.started /\ xfr.err = "none"
     /\ xfr.zone = Z
     /\ xfr.collected /\ xfr.synced /\ ~xfr.stale) =>
        TransferredNames = AnsweredNames

\* Every record of the types of hosted names has the low TTL, every SOA and
\* NS record the SOA TTL
TtlByType(rrs) ==
    \A i \in 1..Len(rrs) :
        /\ rrs[i].type \in DataTypes => rrs[i].ttl = gw.ttlLow
        /\ rrs[i].type \in {"SOA", "NS"} => rrs[i].ttl = gw.ttlSOA

\* Every record has the SOA TTL
TtlSOA(rrs) == \A i \in 1..Len(rrs) : rrs[i].ttl = gw.ttlSOA

\* The TTLs of the response of the last call: nameserver address records
\* are the additional section of an NS answer and the sub-apex answers
ResponseTtls ==
    (resp.called /\ resp.out.kind = "written") =>
        LET m == resp.out.msg
        IN  IF resp.out.apex = "subapex"
            THEN TtlSOA(m.Answer) /\ TtlSOA(m.Ns) /\ TtlSOA(m.Extra)
            ELSE TtlByType(m.Answer) /\ TtlSOA(m.Ns) /\ TtlSOA(m.Extra)

\* The TTLs of the groups of the transfer: the SOA, the NS records and the
\* nameserver addresses (glue) on one side, the per-name groups on the other
TransferTtls ==
    (xfr.started /\ xfr.err = "none") =>
        \A g \in 1..Len(xfr.sent) :
            IF xfr.sent[g].section = "name"
            THEN TtlByType(xfr.sent[g].rrs)
            ELSE TtlSOA(xfr.sent[g].rrs)

\* C20: with the low TTL and the SOA TTL configured to different values,
\* every A, AAAA, TXT and CNAME record emitted for a hosted name in a
\* response or a transfer has the low TTL, and every SOA record, NS record
\* and nameserver address record (NS-query extras, sub-apex answers,
\* transfer glue) has the SOA TTL.
C20_TtlByRecordClass ==
    gw.ttlLow # gw.ttlSOA => (ResponseTtls /\ TransferTtls)

-----------------------------------------------------------------------------
(* Transfers while the indexer has not synced *)

\* The stream of a completed transfer without per-name groups: the SOA, the
\* NS records, the apex address records if any, the closing SOA
OnlyZoneRecords ==
    /\ xfr.err = "none"
    /\ SelectSection(xfr.sent, "name") = <<>>
    /\ SelectSection(xfr.sent, "soa") = <<<<xfr.soa>>>>
    /\ SelectSection(xfr.sent, "ns") # <<>>
    /\ SelectSection(xfr.sent, "final") = <<<<xfr.soa>>>>
    /\ \A i \in 1..Len(xfr.sent) : xfr.sent[i].section \in {"soa", "ns", "addrs", "final"}

\* C24 (as stated): a full transfer requested while the indexer has not
\* synced emits only the SOA, the NS records, the apex address records and
\* the closing SOA, and reports no error.
C24_UnsyncedStartOnlyZoneRecords ==
    (FullTransferDone /\ ~xfr.startSynced) => OnlyZoneRecords

\* C24 (amended): a full transfer whose producer calls transferResources
\* while the indexer has not synced gets no record group from it, and a run
\* to completion emits only the SOA, the NS records, the apex address records
\* and the closing SOA, and reports no error.
C24_UnsyncedAtCollectionOnlyZoneRecords ==
    /\ ~hasSynced => \A zone \in XfrZones : transferResources(zone) = <<>>
    /\ (FullTransferDone /\ ~xfr.synced) => OnlyZoneRecords

\* C24 witness: a completed transfer of the zone that collected while the
\* indexer had not synced, with stores that hold records of the zone and an
\* apex address group in the stream
C24_Witness ==
    /\ FullTransferDone /\ ~xfr.synced /\ ~xfr.stale
    /\ xfr.zone = Z
    /\ transferResourcesUnsynced(Z) # <<>>
    /\ SelectSection(xfr.sent, "addrs") # <<>>
    /\ OnlyZoneRecords

-----------------------------------------------------------------------------
(* The snapshot of a transfer and the serial of its SOA *)

\* What the collectors make of a list of objects, resource by resource
RECURSIVE RecordsOf(_, _, _, _)
RecordsOf(items, records, zone, i) ==
    IF i > Len(gw.Resources) THEN records
    ELSE RecordsOf(items, transferKind(records, zone, gw.Resources[i], items), zone, i + 1)

\* The record groups of the snapshot that was current when the SOA of the
\* transfer was synthesized (the stores only grow)
GroupsAtSoa == RecordsOf(SubSeq(stores, 1, xfr.atSoa), <<>>, xfr.zone, 1)

\* C28: the per-name groups of a full transfer reflect the snapshot that was
\* current when the serial of its SOA was computed: when the snapshot changes
\* between the SOA and the enumeration of the stores, the stream carries no
\* record that is newer than its SOA serial.
C28_GroupsAreOfTheSoaSnapshot ==
    (FullTransferDone /\ xfr.synced) =>
        LET names == SelectSection(xfr.sent, "name")
        IN  \A i \in 1..Len(names) :
               /\ names[i][1].name \in DOMAIN GroupsAtSoa
               /\ names[i] = GroupsAtSoa[names[i][1].name]

-----------------------------------------------------------------------------
(* The producer of a full transfer under a fair scheduler *)

\* A step of the producer goroutine. Each send on the unbuffered channel is a
\* rendezvous with the consumer, so with a consumer that keeps receiving the
\* goroutine is never blocked for ever.
ProducerStep ==
    \/ SendSOA
    \/ SendNS
    \/ SendNSAddrs
    \/ SendResources
    \/ SendFinalSOA
    \/ CloseChannel

\* The runs of the fair specification: the default configuration, and the
\* stores filled from two objects with names of the zone
FairObjects ==
    { IngressObj(<<Key_awz>>, <<<<4, 3>>>>),
      ServiceObj(<<"d">>, <<"k">>, <<>>, <<<<4, 8>>>>) }

InitXfrFair ==
    /\ gw = Configure(DefaultResources, <<>>)
    /\ hasSynced = FALSE
    /\ stores = <<>>
    /\ tables = IndexTables(<<>>)
    /\ lastSerial = Uint32(ClockStart)
    /\ dirty = TRUE
    /\ hist = NoHist
    /\ resp = NoResp
    /\ xfr = NoXfr

NextXfrFair ==
    \/ Sync
    \/ \E o \in FairObjects : Update(o)
    \/ \E zone \in XfrZones, now \in XfrClock :
          \E serial \in CallerSerials(now) : Transfer(zone, serial, now)
    \/ SendSOA
    \/ SendNS
    \/ SendNSAddrs
    \/ SendResources
    \/ SendFinalSOA
    \/ ProducerPanic
    \/ CloseChannel
    \/ Drain

SpecXfrFair == InitXfrFair /\ [][NextXfrFair]_vars /\ WF_vars(ProducerStep)

\* The channel of a full transfer is closed by its producer only, and once
ClosedOnce ==
    (xfr.started /\ xfr.err = "none" /\ xfr.producer # "none") =>
        /\ xfr.closes <= 1
        /\ xfr.closed <=> xfr.closes = 1
        /\ xfr.producer = "done" <=> xfr.closed

\* After a panic the stream of the transfer does not grow
NoGroupAfterPanic ==
    (xfr.started /\ xfr.panicked /\ xfr'.started) => xfr'.sent = xfr.sent

\* C23: the channel of a full transfer is closed exactly once on every exit
\* path of the producer (normal return or a panic), no group is sent after a
\* panic, and with a consumer that keeps receiving the channel is eventually
\* closed.
C23_ChannelClosedOnceOnEveryExit ==
    /\ []ClosedOnce
    /\ [][NoGroupAfterPanic]_vars
    /\ (xfr.started /\ xfr.producer = "running") ~> (xfr.started /\ xfr.closed /\ xfr.closes = 1)

\* C23 witness: a producer that panicked after the NS records, with its
\* channel closed and nothing sent after the records it had emitted
C23_Witness ==
    /\ xfr.started /\ xfr.panicked
    /\ xfr.producer = "done"
    /\ xfr.closed /\ xfr.closes = 1
    /\ Len(xfr.sent) >= 2
    /\ xfr.sent[Len(xfr.sent)].section # "final"

-----------------------------------------------------------------------------
(* split255 on its own: strings of every length up to a bound *)

\* The longest string split: beyond two full segments
MaxTxtLen == 520

\* The strings split: one of a single repeated byte, and one whose bytes
\* change with the position so that a misplaced segment shows
TxtPatterns == {<<"t">>, <<"a", "b", "d", "k", "w", "y", "z">>}

TxtString(n, pat) == [i \in 1..n |-> pat[((i - 1) % Len(pat)) + 1]]

TxtInputs == {TxtString(n, pat) : n \in 0..MaxTxtLen, pat \in TxtPatterns}

InitSplit ==
    /\ gw = newGateway
    /\ hasSynced = FALSE
    /\ tables = TablesOf({})
    /\ stores = <<>>
    /\ lastSerial = Uint32(ClockStart)
    /\ dirty = TRUE
    /\ hist = NoHist
    /\ resp = NoResp
    /\ xfr = NoXfr

\* One call of split255, as gw.TXT makes it for each text of a record
Split(s) ==
    /\ ~resp.called
    /\ resp' = [called |-> TRUE, input |-> s, segments |-> split255(s)]
    /\ UNCHANGED <<gw, hasSynced, tables, stores, lastSerial, dirty, hist, xfr>>

NextSplit ==
    \/ \E s \in TxtInputs : Split(s)
    \/ Reply

SpecSplit == InitSplit /\ [][NextSplit]_vars

\* The concatenation of the segments, in order
RECURSIVE Concat(_)
Concat(segs) == IF segs = <<>> THEN <<>> ELSE Head(segs) \o Concat(Tail(segs))

\* C22: split255 maps every string, of any length (exactly 255 bytes and
\* exact multiples of 255 bytes included), to a sequence of segments of at
\* most 255 bytes each whose concatenation in order is the string.
C22_SegmentsBoundedAndConcatenate ==
    resp.called =>
        /\ Len(resp.segments) >= 1
        /\ \A i \in 1..Len(resp.segments) : Len(resp.segments[i]) <= TxtChunk
        /\ Concat(resp.segments) = resp.input

\* C22 witness: a string of exactly two full segments, whose bytes change
\* with the position, has been split
C22_Witness ==
    /\ resp.called
    /\ Len(resp.input) = 2 * TxtChunk
    /\ resp.input[1] # resp.input[2]
    /\ Len(resp.segments) >= 2
    /\ Len(resp.segments[1]) = TxtChunk
    /\ Len(resp.segments[2]) = TxtChunk

-----------------------------------------------------------------------------
(* Two Gateway instances in one process. Here gw holds the two instances and
   tables the lookup fields of the package-level staticResources elements:
   newGateway and updateResources put pointers to these elements into
   gw.Resources, so a resource of an instance is named by its element. *)

Instances == {1, 2}

\* The lookup functions assigned: noop, and two functions with data for a.w.z
SharedFuncs ==
    { <<>>,
      Key_awz :> [addrs |-> <<<<4, 1>>>>, raws |-> <<>>, cnames |-> <<>>],
      Key_awz :> [addrs |-> <<<<4, 2>>>>, raws |-> <<>>, cnames |-> <<>>] }

\* The resources a lookup function is assigned to
SharedResources == {"Ingress", "Service"}

\* gw.lookupResource(resource) of an instance: the element, or nil
lookupResource(g, resource) ==
    IF \E n \in 1..Len(g.Resources) : g.Resources[n] = resource
    THEN resource ELSE "nil"

\* Every lookup through an instance: for each resource of its table, what the
\* lookup function of the resource returns for the key a.w.z
InstanceLookups(i) ==
    [n \in 1..Len(gw[i].Resources) |-> lookup(gw[i].Resources[n], <<Key_awz>>)]

InitShared ==
    /\ gw = <<newGateway, newGateway>>
    /\ tables = TablesOf({})
    /\ hasSynced = FALSE
    /\ stores = <<>>
    /\ lastSerial = Uint32(ClockStart)
    /\ dirty = TRUE
    /\ hist = NoHist
    /\ resp = NoResp
    /\ xfr = NoXfr

\* gw.updateResources(newResources) on one instance
UpdateResourcesOf(i, newResources) ==
    /\ gw' = [gw EXCEPT ![i] = [@ EXCEPT !.Resources = updateResources(newResources),
                                          !.ConfiguredResources = newResources]]
    /\ resp' = [called |-> TRUE, op |-> "update", inst |-> i]
    /\ hist' = NoHist
    /\ UNCHANGED <<hasSynced, tables, stores, lastSerial, dirty, xfr>>

\* if resource := gw.lookupResource(name); resource != nil { resource.lookup = f }
\* on one instance; hist keeps what the lookups of each instance returned
\* before the assignment
AssignLookup(i, name, f) ==
    /\ lookupResource(gw[i], name) # "nil"
    /\ tables' = [tables EXCEPT ![lookupResource(gw[i], name)] = f]
    /\ resp' = [called |-> TRUE, op |-> "assign", inst |-> i]
    /\ hist' = [n |-> 0, before |-> [j \in Instances |-> InstanceLookups(j)]]
    /\ UNCHANGED <<gw, hasSynced, stores, lastSerial, dirty, xfr>>

NextShared ==
    \/ \E i \in Instances, r \in ResourceConfigs : UpdateResourcesOf(i, r)
    \/ \E i \in Instances, name \in SharedResources, f \in SharedFuncs :
          AssignLookup(i, name, f)

SpecShared == InitShared /\ [][NextShared]_vars

\* C25: assigning a lookup function to a resource of one instance (after
\* newGateway or after updateResources) changes no result of a lookup made
\* through the other instance.
C25_InstancesHaveIndependentTables ==
    (resp.called /\ resp.op = "assign") =>
        \A j \in Instances \ {resp.inst} : InstanceLookups(j) = hist.before[j]

-----------------------------------------------------------------------------
(* Concurrent soa() and markDirty() calls. The cell (lastSerial, dirty) is
   read and written under gw.serialMutex only, so the body of calculateSerial
   and the assignment of markDirty are single steps; a call begins before and
   returns after its step. hist follows the calls. *)

Callers == {1, 2, 3}

\* Number of calls followed
MaxConcCalls == 5

\* The clock readings of the concurrent soa() calls
ConcClocks == { <<0, 0, 999>>, <<0, 0, 1002>>, <<0, Limb - 1, Limb - 1>> }

\* pc: where each caller is ("idle", "soa" called, "serial" computed, "mark"
\* called, "marked" flag set); val: the serial a soa() call computed;
\* returned: the serials of the soa() calls that have returned; snap: the
\* serials returned when a markDirty() call began; settled: the serials
\* returned before a markDirty() call that has since returned began; floor:
\* settled at the time a soa() call began; clean: no markDirty() call was in
\* progress at any time since the soa() call began.
ConcHist(n, pc, val, returned, snap, settled, floor, clean) ==
    [n |-> n, pc |-> pc, val |-> val, returned |-> returned, snap |-> snap,
     settled |-> settled, floor |-> floor, clean |-> clean]

InitConc ==
    /\ gw = Configure(DefaultResources, <<>>)
    /\ hasSynced = TRUE
    /\ tables = TablesOf({})
    /\ stores = <<>>
    /\ lastSerial = Uint32(ClockStart)
    /\ dirty = TRUE
    /\ hist = ConcHist(0, [p \in Callers |-> "idle"], [p \in Callers |-> U32Zero], {},
                       [p \in Callers |-> {}], {}, [p \in Callers |-> {}],
                       [p \in Callers |-> FALSE])
    /\ resp = NoResp
    /\ xfr = NoXfr

\* A caller enters gw.soa(state)
SoaBegin(p) ==
    /\ hist.n < MaxConcCalls
    /\ hist.pc[p] = "idle"
    /\ hist' = [hist EXCEPT !.n = @ + 1, !.pc[p] = "soa",
                            !.floor[p] = hist.settled,
                            !.clean[p] = \A q \in Callers : hist.pc[q] \notin {"mark", "marked"}]
    /\ UNCHANGED <<gw, hasSynced, tables, stores, lastSerial, dirty, resp, xfr>>

\* calculateSerial, from Lock to the deferred Unlock
SoaLocked(p, now) ==
    /\ hist.pc[p] = "soa"
    /\ LET cell == calculateSerial(now, lastSerial, dirty)
       IN  /\ lastSerial' = cell.lastSerial
           /\ dirty' = cell.dirty
           /\ hist' = [hist EXCEPT !.pc[p] = "serial", !.val[p] = cell.serial]
    /\ UNCHANGED <<gw, hasSynced, tables, stores, resp, xfr>>

\* gw.soa(state) returns the record with the serial
SoaReturn(p) ==
    /\ hist.pc[p] = "serial"
    /\ hist' = [hist EXCEPT !.pc[p] = "idle", !.returned = @ \cup {hist.val[p]}]
    /\ UNCHANGED <<gw, hasSynced, tables, stores, lastSerial, dirty, resp, xfr>>

\* A caller enters gw.markDirty()
MarkBegin(p) ==
    /\ hist.n < MaxConcCalls
    /\ hist.pc[p] = "idle"
    /\ hist' = [hist EXCEPT !.n = @ + 1, !.pc[p] = "mark",
                            !.snap[p] = hist.returned,
                            !.clean = [q \in Callers |-> FALSE]]
    /\ UNCHANGED <<gw, hasSynced, tables, stores, lastSerial, dirty, resp, xfr>>

\* markDirty sets the flag under the mutex
MarkLocked(p) ==
    /\ hist.pc[p] = "mark"
    /\ dirty' = TRUE
    /\ hist' = [hist EXCEPT !.pc[p] = "marked"]
    /\ UNCHANGED <<gw, hasSynced, tables, stores, lastSerial, resp, xfr>>

\* gw.markDirty() returns
MarkReturn(p) ==
    /\ hist.pc[p] = "marked"
    /\ hist' = [hist EXCEPT !.pc[p] = "idle", !.settled = @ \cup hist.snap[p]]
    /\ UNCHANGED <<gw, hasSynced, tables, stores, lastSerial, dirty, resp, xfr>>

NextConc ==
    \/ \E p \in Callers : SoaBegin(p)
    \/ \E p \in Callers, now \in ConcClocks : SoaLocked(p, now)
    \/ \E p \in Callers : SoaReturn(p)
    \/ \E p \in Callers : MarkBegin(p)
    \/ \E p \in Callers : MarkLocked(p)
    \/ \E p \in Callers : MarkReturn(p)

SpecConc == InitConc /\ [][NextConc]_vars

\* A soa() call that began after a markDirty() returned has a serial
\* strictly greater than the serials returned before that markDirty() began
GreaterAfterMark ==
    \A p \in Callers :
        hist.pc[p] = "serial" => \A r \in hist.floor[p] : U32Less(r, hist.val[p])

\* soa() calls in progress together, with no markDirty() in progress since
\* the first of them began, have the same serial
SameWithoutMark ==
    \A p, q \in Callers :
        (/\ hist.pc[p] = "serial" /\ hist.pc[q] = "serial"
         /\ hist.clean[p] /\ hist.clean[q]) => hist.val[p] = hist.val[q]

\* C26: under any interleaving of soa() and markDirty() calls, a soa() call
\* that starts after a markDirty() has completed returns a serial strictly
\* greater than every serial returned by soa() calls that completed before
\* that markDirty() began, and concurrent soa() calls with no markDirty()
\* among them return the same serial.
C26_NoDirtySignalLostOrDoubled == GreaterAfterMark /\ SameWithoutMark

-----------------------------------------------------------------------------
(* Wildcards at the zone apex: snapshots with the hosts *.z and z *)

Key_zwild == <<"*", ".", "z">>                        \* *.z

WildEntries ==
    { Entry("Ingress", Key_zwild, <<<<4, 1>>>>, <<>>, <<>>),
      Entry("Service", Key_zwild, <<<<6, 2>>>>, <<>>, <<>>),
      Entry("Ingress", Key_z, <<<<4, 3>>>>, <<>>, <<>>),
      Entry("Ingress", Key_wild, <<<<4, 4>>>>, <<>>, <<>>),
      Entry("Service", Key_aw, <<<<4, 6>>>>, <<>>, <<>>) }

\* The number of entries of a snapshot
MaxWildEntries == 3

WildSnapshots ==
    {TablesOf(es) : es \in {x \in SUBSET WildEntries : Cardinality(x) <= MaxWildEntries}}

InitWild ==
    /\ gw \in Configs
    /\ hasSynced = FALSE
    /\ tables \in WildSnapshots
    /\ stores = <<>>
    /\ lastSerial = Uint32(ClockStart)
    /\ dirty = TRUE
    /\ hist = NoHist
    /\ resp = NoResp
    /\ xfr = NoXfr

SpecWild == InitWild /\ [][Next]_vars

\* The last call reached the lookup pipeline with the zone apex as its name
ApexNameQuery == PipelineRan /\ ToLower(resp.qname) = Z

\* C29: a query for the zone apex name itself is never answered from a
\* wildcard record *.<zone>: no wildcard key set is derived for it, and what
\* the pipeline finds is what the keys of the name itself give.
C29_ApexNeverFromWildcard ==
    ApexNameQuery =>
        /\ Len(KeySetsOfResp) = 1
        /\ resp.out.found = getMatchingAddressesWithCNAME(<<KeySetsOfResp[1]>>)

====
